---- MODULE Spec2Model ----
(***************************************************************************)
(* Verification model of segoport, the Go port of the Swiss Ephemeris      *)
(* library routines (package internal).                                    *)
(*                                                                         *)
(* Conventions used throughout:                                            *)
(*  - Go slices are 0-based, TLA+ sequences 1-based: nutlo[0] of the code  *)
(*    is nutlo[1] here, R[0..2] is R[1..3], coef[j] is coef[j+1].          *)
(*  - float64 quantities are exact integers in a fixed unit that is named  *)
(*    where the quantity is introduced.  Julian days are counted in ticks, *)
(*    DayRes ticks to the day.                                             *)
(*  - An int32 flag word is the set of the names of the bits set in it:    *)
(*    (iflag & SEFLG_SPEED) != 0 reads "SEFLG_SPEED" \in iflag.            *)
(*  - A model id of swed.AstroModels is the name of its SEMOD_ constant;   *)
(*    "0" is the unset entry, and ids ending in _99 have no implementation.*)
(***************************************************************************)
EXTENDS Integers, Sequences, FiniteSets, TLC

VARIABLES
    AstroModels,        \* swed.AstroModels, indexed by the SE_MODEL_ names
    DoInterpolateNut,   \* swed.DoInterpolateNut
    Interpol,           \* swed.Interpol, the nutation interpolation window
    nutCall,            \* the last nutation query: arguments, window before it, results
    nutSeed,            \* the arguments of the query that seeded the window
    epsCall,            \* the last swiEpsiln query: epoch, polynomial used, value
    R,                  \* the caller's vector, rotated in place by precess1/precess2
    precArgs,           \* the epoch and method the caller converts that vector with
    precLog,            \* the precession calls made on R since then
    chebIn,             \* a Chebyshev series and an abscissa held by a caller
    chebCall,           \* the last swiEdcheb call on them: ncf and the result
    InitDtDone,         \* swed.InitDtDone of swephlib (initDt has looked for the file)
    sweDataInitDtDone,  \* sweData.InitDtDone of sweph.go
    deltatArgs,         \* the time and tidal acceleration a caller asks Delta T for
    deltatLog,          \* the last result of deltaTAa and of deltaAA for them
    biasArgs,           \* a vector, flags and direction a caller passes to SwiBias
    biasLog,            \* the SwiBias calls made with them: tjd and the vector returned
    Pldat,              \* swed.Pldat: per body, the loaded segment and the last result
    posCall,            \* the last position query: arguments, cache before it, work done
    cartIn,             \* a cartesian slice a caller passes to swiCartpol
    coordCall,          \* the last swiCartpol or swiPolcart call: input, result
    dateArgs,           \* a calendar date, time of day and calendar a caller holds
    dateCall,           \* the last SweJulday, SweRevjul or SweDateConversion call
    leapSeconds,        \* var leapSeconds, the table of leap second dates
    initLeapSecondsDone,\* var initLeapSecondsDone
    leapFile,           \* the file seleapsec.txt: whether it exists, and its lines
    fileReads,          \* how often seleapsec.txt has been opened
    utcArgs,            \* a UTC clock time and calendar a caller holds
    utcCall,            \* the last SweUtcToJd or initLeapSec call and what it returned
    versionCall,        \* the last Port.Version call: its result, and how many calls were made
    TidAcc,             \* swed.TidAcc of swephlib
    IsTidAccManual,     \* swed.IsTidAccManual of swephlib
    sweData,            \* sweData of sweph.go: TidAcc, IsTidAccManual, SwedIsInitialised
    swed,               \* swed of sweph.go (type Swed): tidAcc, isTidAccManual, jpldenum, jplFileIsOpen
    moonFile,           \* Fidat[SEI_FILE_MOON]: Fptr and SwephDenum
    tidSet,             \* the argument of the last call of each tid-acc setter
    tidCall,            \* the last tidal acceleration or Delta T call and what it used
    startCall,          \* the SwiInitSwedIfStart calls made and what the last returned
    cartSpX,            \* a slice of position and speed a caller passes to swiCartpolSp
    cartSpL,            \* the caller's slice l, which swiCartpolSp is to fill
    cartSpCall,         \* the last swiCartpolSp call: the path it took
    cutArgs,            \* s, cutlist and nmax of the swiCutstr call
    cutCpos,            \* the caller's slice cpos
    cutCall,            \* the swiCutstr call made and the n it returned
    genArgs,            \* tjd (in ticks) and ipli of the swiGenFilename call
    genCall,            \* the swiGenFilename call made and the name it returned
    dtLog,              \* the initDt calls made from outside the Delta T functions and what they did
    nutProbe,           \* the (tjd, iflag) whose swiNutation results are compared
    nutSeen             \* nutlo of the first and of the latest swiNutation call made with nutProbe

nutVars == <<DoInterpolateNut, Interpol, nutCall, nutSeed>>
precVars == <<epsCall, R, precArgs, precLog>>

chebVars == <<chebIn, chebCall>>

deltatVars == <<InitDtDone, sweDataInitDtDone, deltatArgs, deltatLog>>

biasVars == <<biasArgs, biasLog>>

cacheVars == <<Pldat, posCall>>

coordVars == <<cartIn, coordCall>>

dateVars == <<dateArgs, dateCall>>

utcVars == <<leapSeconds, initLeapSecondsDone, leapFile, fileReads, utcArgs, utcCall>>

versionVars == <<versionCall>>

tidVars == <<TidAcc, IsTidAccManual, sweData, swed, moonFile, tidSet, tidCall, startCall>>

cartSpVars == <<cartSpX, cartSpL, cartSpCall>>

cutVars == <<cutArgs, cutCpos, cutCall>>

genVars == <<genArgs, genCall>>

dtSizeVars == <<dtLog>>

nutWatchVars == <<nutProbe, nutSeen>>

vars == <<AstroModels, nutVars, precVars, chebVars, deltatVars, biasVars, cacheVars, coordVars, dateVars, utcVars, versionVars, tidVars, cartSpVars, cutVars, genVars, dtSizeVars, nutWatchVars>>

\* What each component leaves alone.
notNut == <<precVars, chebVars, deltatVars, biasVars, cacheVars, coordVars, dateVars, utcVars, versionVars, tidVars, cartSpVars, cutVars, genVars, dtSizeVars, nutWatchVars>>
notPrec == <<nutVars, chebVars, deltatVars, biasVars, cacheVars, coordVars, dateVars, utcVars, versionVars, tidVars, cartSpVars, cutVars, genVars, dtSizeVars, nutWatchVars>>
notCheb == <<AstroModels, nutVars, precVars, deltatVars, biasVars, cacheVars, coordVars, dateVars, utcVars, versionVars, tidVars, cartSpVars, cutVars, genVars, dtSizeVars, nutWatchVars>>
notDeltat == <<nutVars, precVars, chebVars, biasVars, cacheVars, coordVars, dateVars, utcVars, versionVars, tidVars, cartSpVars, cutVars, genVars, dtSizeVars, nutWatchVars>>
notBias == <<nutVars, precVars, chebVars, deltatVars, cacheVars, coordVars, dateVars, utcVars, versionVars, tidVars, cartSpVars, cutVars, genVars, dtSizeVars, nutWatchVars>>
notCache == <<AstroModels, nutVars, precVars, chebVars, deltatVars, biasVars, coordVars, dateVars, utcVars, versionVars, tidVars, cartSpVars, cutVars, genVars, dtSizeVars, nutWatchVars>>
notCoord == <<AstroModels, nutVars, precVars, chebVars, deltatVars, biasVars, cacheVars, dateVars, utcVars, versionVars, tidVars, cartSpVars, cutVars, genVars, dtSizeVars, nutWatchVars>>
notDate == <<AstroModels, nutVars, precVars, chebVars, deltatVars, biasVars, cacheVars, coordVars, utcVars, versionVars, tidVars, cartSpVars, cutVars, genVars, dtSizeVars, nutWatchVars>>
notUtc == <<AstroModels, nutVars, precVars, chebVars, deltatVars, biasVars, cacheVars, coordVars, dateVars, versionVars, tidVars, cartSpVars, cutVars, genVars, dtSizeVars, nutWatchVars>>
notVersion == <<AstroModels, nutVars, precVars, chebVars, deltatVars, biasVars, cacheVars, coordVars, dateVars, utcVars, tidVars, cartSpVars, cutVars, genVars, dtSizeVars, nutWatchVars>>
notTid == <<AstroModels, nutVars, precVars, chebVars, deltatVars, biasVars, cacheVars, coordVars, dateVars, utcVars, versionVars, cartSpVars, cutVars, genVars, dtSizeVars, nutWatchVars>>
notCartSp == <<AstroModels, nutVars, precVars, chebVars, deltatVars, biasVars, cacheVars, coordVars, dateVars, utcVars, versionVars, tidVars, cutVars, genVars, dtSizeVars, nutWatchVars>>
notCut == <<AstroModels, nutVars, precVars, chebVars, deltatVars, biasVars, cacheVars, coordVars, dateVars, utcVars, versionVars, tidVars, cartSpVars, genVars, dtSizeVars, nutWatchVars>>
notGen == <<AstroModels, nutVars, precVars, chebVars, deltatVars, biasVars, cacheVars, coordVars, dateVars, utcVars, versionVars, tidVars, cartSpVars, cutVars, dtSizeVars, nutWatchVars>>
notDtSize == <<AstroModels, nutVars, precVars, chebVars, deltatVars, biasVars, cacheVars, coordVars, dateVars, utcVars, versionVars, tidVars, cartSpVars, cutVars, genVars, nutWatchVars>>
notNutWatch == <<AstroModels, nutVars, precVars, chebVars, deltatVars, biasVars, cacheVars, coordVars, dateVars, utcVars, versionVars, tidVars, cartSpVars, cutVars, genVars, dtSizeVars>>

(***************************************************************************)
(* Bounds and constants                                                    *)
(***************************************************************************)
DayRes == 2          \* ticks per day
MaxTjd == 4          \* nutation queries are made at ticks -DayRes .. MaxTjd

OK == 0
ERR == -1

Abs(n) == IF n < 0 THEN -n ELSE n

(***************************************************************************)
(* The state after construction: Go zero values.  swed.AstroModels stands  *)
(* as the array of SEI_NMODELS entries of the C original, all unset.       *)
(***************************************************************************)
\* The zero value of the Go struct Interpol.
InterpolZero ==
    [TjdNut0 |-> 0, TjdNut2 |-> 0,
     NutDpsi0 |-> 0, NutDpsi1 |-> 0, NutDpsi2 |-> 0,
     NutDeps0 |-> 0, NutDeps1 |-> 0, NutDeps2 |-> 0]

NoNutCall ==
    [op |-> "none", tjd |-> 0, iflag |-> {}, nutloIn |-> <<0, 0>>,
     prev |-> InterpolZero, retc |-> OK, nutlo |-> <<0, 0>>, ncalc |-> 0, x |-> 0]

NoNutSeed == [seeded |-> FALSE, iflag |-> {}, nutloIn |-> <<0, 0>>]

AstroModelsUnset ==
    [SE_MODEL_DELTAT |-> "0", SE_MODEL_PREC_LONGTERM |-> "0",
     SE_MODEL_PREC_SHORTTERM |-> "0", SE_MODEL_NUT |-> "0",
     SE_MODEL_BIAS |-> "0", SE_MODEL_JPLHORA_MODE |-> "0"]

NutIdle ==
    /\ DoInterpolateNut = FALSE
    /\ Interpol = InterpolZero
    /\ nutCall = NoNutCall
    /\ nutSeed = NoNutSeed

NoEpsCall == [op |-> "none", J |-> 0, poly |-> "none", eps |-> <<0, 0>>]

PrecIdle ==
    /\ epsCall = NoEpsCall
    /\ R = <<>>
    /\ precArgs = [J |-> 0, precMethod |-> "0"]
    /\ precLog = <<>>

NoChebCall == [op |-> "none", ncf |-> 0, result |-> 0]

ChebIdle ==
    /\ chebIn = [x2 |-> 0, coef |-> <<>>]
    /\ chebCall = NoChebCall

NoDeltatResult == [called |-> FALSE, panic |-> FALSE, val |-> 0]

DeltatIdle ==
    /\ InitDtDone = FALSE
    /\ sweDataInitDtDone = FALSE
    /\ deltatArgs = [Yq |-> 0, tidAcc |-> 0]
    /\ deltatLog = [taa |-> NoDeltatResult, aa |-> NoDeltatResult]

BiasIdle ==
    /\ biasArgs = [x |-> <<>>, iflag |-> {}, backward |-> FALSE]
    /\ biasLog = <<>>

\* The zero value of the fields of the Go struct PlanData that hold the unpacked
\* segment and the most recent evaluation.
PlanDataZero == [Tseg0 |-> 0, Tseg1 |-> 0, Teval |-> 0, Xflgs |-> {}, X |-> <<>>]

NoPosCall ==
    [op |-> "none", ipl |-> "", tjd |-> 0, iflag |-> {}, prev |-> PlanDataZero,
     nload |-> 0, neval |-> 0, x |-> <<>>]

CacheBodies == {"SEI_MOON", "SEI_MARS"}

CacheIdle ==
    /\ Pldat = [ipl \in CacheBodies |-> PlanDataZero]
    /\ posCall = NoPosCall

NoCoordCall == [op |-> "none", in |-> <<>>, l |-> <<>>, x |-> <<>>]

CoordIdle ==
    /\ cartIn = <<>>
    /\ coordCall = NoCoordCall

NoDateArgs == [y |-> 0, m |-> 0, d |-> 0, hour |-> 0, gregflag |-> 0]

NoDateCall ==
    [op |-> "none", jd |-> 0, y |-> 0, m |-> 0, d |-> 0, ut |-> 0, err |-> "nil"]

DateIdle ==
    /\ dateArgs = NoDateArgs
    /\ dateCall = NoDateCall

\* var leapSeconds of the source: 27 dates and the zero end mark.
LeapSecondsInitial ==
    <<19720630, 19721231, 19731231, 19741231, 19751231, 19761231, 19771231,
      19781231, 19791231, 19810630, 19820630, 19830630, 19850630, 19871231,
      19891231, 19901231, 19920630, 19930630, 19940630, 19951231, 19970630,
      19981231, 20051231, 20081231, 20120630, 20150630, 20161231, 0>>

NoLeapFile == [exists |-> FALSE, lines |-> <<>>]

NoUtcArgs ==
    [iyear |-> 0, imonth |-> 0, iday |-> 0, ihour |-> 0, imin |-> 0, dsec |-> 0,
     gregflag |-> 0]

NoJd == [day |-> 0, ms |-> 0]

NoUtcCall ==
    [op |-> "none", err |-> "nil", tjdEt |-> NoJd, tjdUt1 |-> NoJd, nleap |-> 0,
     ndat |-> 0, prev |-> <<>>]

UtcIdle ==
    /\ leapSeconds = LeapSecondsInitial
    /\ initLeapSecondsDone = FALSE
    /\ leapFile = NoLeapFile
    /\ fileReads = 0
    /\ utcArgs = NoUtcArgs
    /\ utcCall = NoUtcCall

NoVersionCall == [op |-> "none", result |-> <<>>, calls |-> 0]

VersionIdle == versionCall = NoVersionCall

NoTidSet == [called |-> FALSE, tAcc |-> 0]

NoTidCall ==
    [op |-> "none", Yq |-> 0, retc |-> {}, tidAcc |-> 0, deltat |-> NoDeltatResult]

NoStartCall == [calls |-> 0, ret |-> FALSE]

TidIdle ==
    /\ TidAcc = 0
    /\ IsTidAccManual = FALSE
    /\ sweData = [EphePath |-> "", TidAcc |-> 0, IsTidAccManual |-> FALSE,
                  SwedIsInitialised |-> FALSE]
    /\ swed = [tidAcc |-> 0, isTidAccManual |-> FALSE, jpldenum |-> 0, jplFileIsOpen |-> FALSE]
    /\ moonFile = [Fptr |-> "nil", SwephDenum |-> 0]
    /\ tidSet = [lib |-> NoTidSet, sweph |-> NoTidSet]
    /\ tidCall = NoTidCall
    /\ startCall = NoStartCall

\* An element of a float64 slice that still holds what the caller put there.
Old == [tag |-> "old"]

NoSpCall == [op |-> "none", path |-> ""]

CartSpIdle ==
    /\ cartSpX = <<>>
    /\ cartSpL = <<>>
    /\ cartSpCall = NoSpCall

\* An element of a []string that still holds what the caller put there.
OldString == <<"old">>

NoCutArgs == [s |-> <<>>, cutlist |-> <<>>, nmax |-> 0]

NoCutCall == [op |-> "none", n |-> 0]

CutIdle ==
    /\ cutArgs = NoCutArgs
    /\ cutCpos = <<>>
    /\ cutCall = NoCutCall

NoGenArgs == [tjd |-> 0, ipli |-> 0]

NoGenCall == [op |-> "none", fname |-> <<>>]

GenIdle ==
    /\ genArgs = NoGenArgs
    /\ genCall = NoGenCall

DtSizeIdle == dtLog = <<>>

NoNutProbe == [tjd |-> 0, iflag |-> {}]

NutWatchIdle ==
    /\ nutProbe = NoNutProbe
    /\ nutSeen = <<>>

\* End of the zero values.

IflagSet == SUBSET {"SEFLG_SPEED", "SEFLG_JPLHOR_APPROX"}

NutIflagSet == { {}, {"SEFLG_JPLHOR_APPROX"} }

(***************************************************************************)
(* Nutation (swephlib.c calc_nutation, quadratic_intp, swi_nutation)       *)
(*                                                                         *)
(* Angles of nutation are integers in units of 1e-9/NutUnit rad.  The      *)
(* three trigonometric series (IAU 1980, IAU 2000A/B, Woolard) are each    *)
(* replaced by an integer function of the time that is not a polynomial of *)
(* degree two, so an interpolated value differs from a computed one.       *)
(***************************************************************************)
NutUnit == 2 * DayRes * DayRes

calcNutationIau1980(J) ==
    << NutUnit * (((J * J * J) % 17) - 8), NutUnit * (((J * J) % 13) - 6) >>

calcNutationIau2000ab(J) ==
    << NutUnit * (((J * J * J) % 19) - 9), NutUnit * (((J * J + J) % 11) - 5) >>

calcNutationWoolard(J) ==
    << NutUnit * (((J * J * J) % 23) - 11), NutUnit * (((J * J + 2 * J) % 7) - 3) >>

\* calcNutation: dispatch on the configured nutation model; a model id that
\* matches no branch leaves nutlo as the caller passed it and still returns OK.
calcNutation(J, iflag, nutlo) ==
    LET nutModel0 == AstroModels.SE_MODEL_NUT
        jplhoraModel == AstroModels.SE_MODEL_JPLHORA_MODE
        nutModel == IF nutModel0 = "0" THEN "SEMOD_NUT_IAU_2000B" ELSE nutModel0
    IN  IF nutModel = "SEMOD_NUT_IAU_1980" \/ nutModel = "SEMOD_NUT_IAU_CORR_1987"
        THEN [retc |-> OK, nutlo |-> calcNutationIau1980(J)]
        ELSE IF nutModel = "SEMOD_NUT_IAU_2000A" \/ nutModel = "SEMOD_NUT_IAU_2000B"
        THEN LET n == calcNutationIau2000ab(J)
             IN  IF "SEFLG_JPLHOR_APPROX" \in iflag /\ jplhoraModel = "SEMOD_JPLHORA_2"
                 THEN [retc |-> OK, nutlo |-> << n[1] - 203 * NutUnit, n[2] - 33 * NutUnit >>]
                 ELSE [retc |-> OK, nutlo |-> n]
        ELSE IF nutModel = "SEMOD_NUT_WOOLARD"
        THEN [retc |-> OK, nutlo |-> calcNutationWoolard(J)]
        ELSE [retc |-> OK, nutlo |-> nutlo]

\* quadraticIntp: x is given in ticks, i.e. the code's x is x / DayRes.
quadraticIntpFullSlope(ym, y0, yp, x) ==
    LET c == y0
        b == yp - ym
        a == (yp + ym) \div 2 - c
    IN  (a * x * x) \div (DayRes * DayRes) + (b * x) \div DayRes + c

quadraticIntp(ym, y0, yp, x) ==
    LET c == y0
        b == (yp - ym) \div 2
        a == (yp + ym) \div 2 - c
    IN  (a * x * x) \div (DayRes * DayRes) + (b * x) \div DayRes + c

\* The test of swiNutation for "precalculated data points are available".
NutWindowCoversClosed(tjd) ==
    tjd <= Interpol.TjdNut2 /\ tjd >= Interpol.TjdNut0

NutWindowCovers(tjd) ==
    tjd < Interpol.TjdNut2 /\ tjd > Interpol.TjdNut0

\* The else branch of swiNutation: the window is re-seeded around tjd.
\* dnut is a fresh zeroed slice that both outer samples are computed into.
seedWindowLate(tjd, iflag, nutlo) ==
    LET t0 == tjd - DayRes
        t2 == tjd + 2 * DayRes
        r0 == calcNutation(t0, iflag, <<0, 0>>)
        r2 == calcNutation(t2, iflag, r0.nutlo)
        r1 == calcNutation(tjd, iflag, nutlo)
    IN  [retc |-> r1.retc, nutlo |-> r1.nutlo, ncalc |-> 3,
         ip |-> [TjdNut0 |-> t0, TjdNut2 |-> t2,
                 NutDpsi0 |-> r0.nutlo[1], NutDpsi1 |-> r1.nutlo[1], NutDpsi2 |-> r2.nutlo[1],
                 NutDeps0 |-> r0.nutlo[2], NutDeps1 |-> r1.nutlo[2], NutDeps2 |-> r2.nutlo[2]]]

seedWindow(tjd, iflag, nutlo) ==
    LET t0 == tjd - DayRes
        t2 == tjd + DayRes
        r0 == calcNutation(t0, iflag, <<0, 0>>)
        r2 == calcNutation(t2, iflag, r0.nutlo)
        r1 == calcNutation(tjd, iflag, nutlo)
    IN  [retc |-> r1.retc, nutlo |-> r1.nutlo, ncalc |-> 3,
         ip |-> [TjdNut0 |-> t0, TjdNut2 |-> t2,
                 NutDpsi0 |-> r0.nutlo[1], NutDpsi1 |-> r1.nutlo[1], NutDpsi2 |-> r2.nutlo[1],
                 NutDeps0 |-> r0.nutlo[2], NutDeps1 |-> r1.nutlo[2], NutDeps2 |-> r2.nutlo[2]]]

\* swiNutation: result code, output angles, number of calcNutation calls made
\* and the window after the call.
swiNutation(tjd, iflag, nutlo) ==
    IF ~DoInterpolateNut
    THEN LET r == calcNutation(tjd, iflag, nutlo)
         IN  [retc |-> r.retc, nutlo |-> r.nutlo, ncalc |-> 1, ip |-> Interpol]
    ELSE IF NutWindowCovers(tjd)
    THEN LET dx == (tjd - Interpol.TjdNut0) - DayRes
         IN  [retc |-> OK,
              nutlo |-> << quadraticIntp(Interpol.NutDpsi0, Interpol.NutDpsi1,
                                         Interpol.NutDpsi2, dx),
                           quadraticIntp(Interpol.NutDeps0, Interpol.NutDeps1,
                                         Interpol.NutDeps2, dx) >>,
              ncalc |-> 0, ip |-> Interpol]
    ELSE seedWindow(tjd, iflag, nutlo)

NutModelIds ==
    {"0", "SEMOD_NUT_IAU_1980", "SEMOD_NUT_IAU_CORR_1987", "SEMOD_NUT_IAU_2000A",
     "SEMOD_NUT_IAU_2000B", "SEMOD_NUT_WOOLARD", "SEMOD_NUT_99"}

NutloInputs == { <<0, 0>>, <<5 * NutUnit, -3 * NutUnit>> }

InitNut ==
    /\ \E n \in NutModelIds, h \in {"0", "SEMOD_JPLHORA_2"} :
          AstroModels = [AstroModelsUnset EXCEPT !.SE_MODEL_NUT = n,
                                                 !.SE_MODEL_JPLHORA_MODE = h]
    /\ DoInterpolateNut \in BOOLEAN
    /\ Interpol = InterpolZero
    /\ nutCall = NoNutCall
    /\ nutSeed = NoNutSeed
    /\ PrecIdle
    /\ ChebIdle
    /\ DeltatIdle
    /\ BiasIdle
    /\ CacheIdle
    /\ NutWatchIdle
    /\ DtSizeIdle
    /\ GenIdle
    /\ CutIdle
    /\ CartSpIdle
    /\ TidIdle
    /\ VersionIdle
    /\ UtcIdle
    /\ DateIdle
    /\ CoordIdle

\* A caller queries swiNutation(tjd, iflag, nutlo).
SwiNutation ==
    \E tjd \in (-DayRes) .. MaxTjd, iflag \in NutIflagSet, nin \in NutloInputs :
        LET r == swiNutation(tjd, iflag, nin)
        IN  /\ Interpol' = r.ip
            /\ nutCall' = [op |-> "swiNutation", tjd |-> tjd, iflag |-> iflag,
                           nutloIn |-> nin, prev |-> Interpol, retc |-> r.retc,
                           nutlo |-> r.nutlo, ncalc |-> r.ncalc, x |-> 0]
            /\ nutSeed' = IF r.ncalc = 3
                          THEN [seeded |-> TRUE, iflag |-> iflag, nutloIn |-> nin]
                          ELSE nutSeed
            /\ UNCHANGED <<AstroModels, DoInterpolateNut, notNut>>

\* A caller queries calcNutation(J, iflag, nutlo) directly.
CalcNutation ==
    \E J \in (-DayRes) .. MaxTjd, iflag \in NutIflagSet, nin \in NutloInputs :
        LET r == calcNutation(J, iflag, nin)
        IN  /\ nutCall' = [op |-> "calcNutation", tjd |-> J, iflag |-> iflag,
                           nutloIn |-> nin, prev |-> Interpol, retc |-> r.retc,
                           nutlo |-> r.nutlo, ncalc |-> 1, x |-> 0]
            /\ UNCHANGED <<AstroModels, DoInterpolateNut, Interpol, nutSeed, notNut>>

\* A caller evaluates quadraticIntp on the stored samples of a seeded window, for
\* the longitude and for the obliquity, at one of the three sample points.
QuadraticIntp ==
    \E x \in {-DayRes, 0, DayRes} :
        /\ nutSeed.seeded
        /\ nutCall' = [op |-> "quadraticIntp", tjd |-> 0, iflag |-> {},
                       nutloIn |-> <<0, 0>>, prev |-> Interpol, retc |-> OK,
                       nutlo |-> << quadraticIntp(Interpol.NutDpsi0, Interpol.NutDpsi1,
                                                  Interpol.NutDpsi2, x),
                                    quadraticIntp(Interpol.NutDeps0, Interpol.NutDeps1,
                                                  Interpol.NutDeps2, x) >>,
                       ncalc |-> 0, x |-> x]
        /\ UNCHANGED <<AstroModels, DoInterpolateNut, Interpol, nutSeed, notNut>>

NextNut == SwiNutation \/ CalcNutation \/ QuadraticIntp

SpecNut == InitNut /\ [][NextNut]_vars

(***************************************************************************)
(* Claims on the nutation interpolation window                             *)
(***************************************************************************)

\* C1: with interpolation enabled, a query strictly inside the stored window
\* (TjdNut0 < tjd < TjdNut2) is answered by quadraticIntp over the three stored
\* samples at dx = tjd - TjdNut0 - 1 day, calls calcNutation not at all and leaves
\* the window as it was; every other query (on a window end, or the first one)
\* re-seeds the window to tjd - 1 day .. tjd + 1 day.
C1_InterpolateStrictlyInside ==
    (nutCall.op = "swiNutation" /\ DoInterpolateNut) =>
        LET p == nutCall.prev
            dx == nutCall.tjd - p.TjdNut0 - DayRes
        IN  IF p.TjdNut0 < nutCall.tjd /\ nutCall.tjd < p.TjdNut2
            THEN /\ nutCall.nutlo =
                       << quadraticIntp(p.NutDpsi0, p.NutDpsi1, p.NutDpsi2, dx),
                          quadraticIntp(p.NutDeps0, p.NutDeps1, p.NutDeps2, dx) >>
                 /\ nutCall.ncalc = 0
                 /\ Interpol = p
            ELSE /\ Interpol.TjdNut0 = nutCall.tjd - DayRes
                 /\ Interpol.TjdNut2 = nutCall.tjd + DayRes
                 /\ nutCall.ncalc > 0

\* C1 witness: a query half a day off the seeding time was interpolated.
C1_Witness ==
    /\ nutCall.op = "swiNutation" /\ DoInterpolateNut
    /\ nutCall.prev.TjdNut0 < nutCall.tjd /\ nutCall.tjd < nutCall.prev.TjdNut2
    /\ nutCall.tjd # nutCall.prev.TjdNut0 + DayRes
    /\ nutCall.ncalc = 0
    /\ Interpol = nutCall.prev

\* C2: once seeded, the window spans exactly two days and its three sample pairs
\* are the calcNutation values at TjdNut0, TjdNut0 + 1 day and TjdNut2, computed
\* with the flags of the seeding query.
C2_WindowHoldsThreeDailySamples ==
    (nutSeed.seeded /\ DoInterpolateNut) =>
        LET s0 == calcNutation(Interpol.TjdNut0, nutSeed.iflag, <<0, 0>>).nutlo
            s1 == calcNutation(Interpol.TjdNut0 + DayRes, nutSeed.iflag, nutSeed.nutloIn).nutlo
            s2 == calcNutation(Interpol.TjdNut2, nutSeed.iflag, <<0, 0>>).nutlo
        IN  /\ Interpol.TjdNut2 - Interpol.TjdNut0 = 2 * DayRes
            /\ <<Interpol.NutDpsi0, Interpol.NutDeps0>> = s0
            /\ <<Interpol.NutDpsi1, Interpol.NutDeps1>> = s1
            /\ <<Interpol.NutDpsi2, Interpol.NutDeps2>> = s2

\* C2 witness: a seeded window that has since answered an interpolated query.
C2_Witness ==
    /\ nutSeed.seeded /\ DoInterpolateNut
    /\ nutCall.op = "swiNutation" /\ nutCall.ncalc = 0
    /\ AstroModels.SE_MODEL_NUT = "SEMOD_NUT_IAU_1980"
    /\ Interpol.NutDpsi0 # Interpol.NutDpsi2

\* C13: quadraticIntp(ym, y0, yp, x) returns ym at x = -1, y0 at x = 0 and yp at
\* x = 1; and a swiNutation query that is interpolated at the middle of the window,
\* the time that seeded it, returns the stored middle sample.
C13_QuadraticIntpPassesThroughSamples ==
    /\ nutCall.op = "quadraticIntp" =>
           /\ nutCall.x = -DayRes =>
                  nutCall.nutlo = <<nutCall.prev.NutDpsi0, nutCall.prev.NutDeps0>>
           /\ nutCall.x = 0 =>
                  nutCall.nutlo = <<nutCall.prev.NutDpsi1, nutCall.prev.NutDeps1>>
           /\ nutCall.x = DayRes =>
                  nutCall.nutlo = <<nutCall.prev.NutDpsi2, nutCall.prev.NutDeps2>>
    /\ ( /\ nutCall.op = "swiNutation" /\ DoInterpolateNut /\ nutCall.ncalc = 0
         /\ nutCall.tjd = nutCall.prev.TjdNut0 + DayRes ) =>
           nutCall.nutlo = <<nutCall.prev.NutDpsi1, nutCall.prev.NutDeps1>>

\* C13 witness: quadraticIntp evaluated at x = 1 on three samples that do not lie
\* on a line gave the third sample.
C13_Witness ==
    /\ nutCall.op = "quadraticIntp" /\ nutCall.x = DayRes
    /\ Interpol.NutDpsi2 - Interpol.NutDpsi1 # Interpol.NutDpsi1 - Interpol.NutDpsi0
    /\ Interpol.NutDpsi2 # Interpol.NutDpsi0
    /\ nutCall.nutlo[1] = Interpol.NutDpsi2

(***************************************************************************)
(* Exact arithmetic for rotations.                                         *)
(*                                                                         *)
(* A float64 of the rotation code is a rational <<n, d>> in lowest terms,  *)
(* d > 0.  An angle is a pair <<q, k>> of integers standing for            *)
(* q * 90 degrees + k * atan(4/3), the only angles whose sine and cosine   *)
(* are both rational: cos + i sin of it is i^q * ((3 + 4i) / 5)^k, so      *)
(* math.Sin and math.Cos are computed without error and angles add and     *)
(* negate as in the code.                                                  *)
(***************************************************************************)
RECURSIVE GCD(_, _)
GCD(a, b) == IF b = 0 THEN a ELSE GCD(b, a % b)

Rat(n, d) == LET g == GCD(Abs(n), d) IN <<n \div g, d \div g>>

RI(n) == <<n, 1>>

RNeg(a) == <<-a[1], a[2]>>

RAdd(a, b) ==
    LET l == (a[2] \div GCD(a[2], b[2])) * b[2]
    IN  Rat(a[1] * (l \div a[2]) + b[1] * (l \div b[2]), l)

RSub(a, b) == RAdd(a, RNeg(b))

RMul(a, b) ==
    LET g1 == GCD(Abs(a[1]), b[2])
        g2 == GCD(Abs(b[1]), a[2])
    IN  Rat((a[1] \div g1) * (b[1] \div g2), (a[2] \div g2) * (b[2] \div g1))

RECURSIVE CisPow(_)
CisPow(k) ==
    IF k = 0 THEN <<1, 0>>
    ELSE LET q == CisPow(k - 1) IN <<3 * q[1] - 4 * q[2], 4 * q[1] + 3 * q[2]>>

RECURSIVE Pow5(_)
Pow5(k) == IF k = 0 THEN 1 ELSE 5 * Pow5(k - 1)

AngAdd(a, b) == <<a[1] + b[1], a[2] + b[2]>>

AngNeg(a) == <<-a[1], -a[2]>>

\* i^q * (c + i s)
CisTurn(q, c, s) ==
    CASE q % 4 = 0 -> <<c, s>>
      [] q % 4 = 1 -> <<-s, c>>
      [] q % 4 = 2 -> <<-c, -s>>
      [] q % 4 = 3 -> <<s, -c>>

CisSigned(q, k, p) == CisTurn(q, p[1], IF k < 0 THEN -p[2] ELSE p[2])

Cos(a) == Rat(CisSigned(a[1], a[2], CisPow(Abs(a[2])))[1], Pow5(Abs(a[2])))

Sin(a) == Rat(CisSigned(a[1], a[2], CisPow(Abs(a[2])))[2], Pow5(Abs(a[2])))

(***************************************************************************)
(* Precession and obliquity (swephlib.c precess_1, precess_2, swi_epsiln)  *)
(***************************************************************************)
MaxCty == 2          \* precession epochs lie within MaxCty centuries of J2000
MaxCalls == 2        \* precession calls made on one vector

J_TO_J2000 == 1
J2000_TO_J == -1

PREC_IAU_1976_CTIES == 2
PREC_IAU_2000_CTIES == 2
PREC_IAU_2006_CTIES == 75

J2000 == 2451545 * DayRes

Century == 36525 * DayRes

\* T of the code, rounded down to whole centuries: the argument of the
\* stand-ins for the coefficient polynomials.
Tcty(J) == (J - J2000) \div Century

SEMOD_PREC_DEFAULT == "SEMOD_PREC_VONDRAK_2011"
SEMOD_PREC_DEFAULT_SHORT == "SEMOD_PREC_VONDRAK_2011"

\* The if/else chain of swiEpsiln: the obliquity polynomial that is evaluated.
\* The two IAU 1976 branches hold the same polynomial, as do the two IAU 2000
\* and the two IAU 2006 ones.
swiEpsilnPoly(J) ==
    LET pm0 == AstroModels.SE_MODEL_PREC_LONGTERM
        ps0 == AstroModels.SE_MODEL_PREC_SHORTTERM
        precModel == IF pm0 = "0" THEN SEMOD_PREC_DEFAULT ELSE pm0
        precModelShort == IF ps0 = "0" THEN SEMOD_PREC_DEFAULT_SHORT ELSE ps0
        absT == Abs(J - J2000)
    IN  IF precModelShort = "SEMOD_PREC_IAU_1976" /\ absT <= PREC_IAU_1976_CTIES * Century
        THEN "IAU_1976"
        ELSE IF precModel = "SEMOD_PREC_IAU_1976" THEN "IAU_1976"
        ELSE IF precModelShort = "SEMOD_PREC_IAU_2000" /\ absT <= PREC_IAU_2000_CTIES * Century
        THEN "IAU_2000"
        ELSE IF precModel = "SEMOD_PREC_IAU_2000" THEN "IAU_2000"
        ELSE IF precModelShort = "SEMOD_PREC_IAU_2006" /\ absT <= PREC_IAU_2006_CTIES * Century
        THEN "IAU_2006"
        ELSE IF precModel = "SEMOD_PREC_NEWCOMB" THEN "NEWCOMB"
        ELSE IF precModel = "SEMOD_PREC_IAU_2006" THEN "IAU_2006"
        ELSE IF precModel = "SEMOD_PREC_BRETAGNON_2003" THEN "BRETAGNON_2003"
        ELSE IF precModel = "SEMOD_PREC_SIMON_1994" THEN "SIMON_1994"
        ELSE IF precModel = "SEMOD_PREC_WILLIAMS_1994" THEN "WILLIAMS_1994"
        ELSE IF precModel = "SEMOD_PREC_LASKAR_1986" \/ precModel = "SEMOD_PREC_WILL_EPS_LASK"
        THEN "LASKAR_1986"
        ELSE IF precModel = "SEMOD_PREC_OWEN_1990" THEN "OWEN_1990"
        ELSE "VONDRAK_2011"

\* The value of an obliquity polynomial at J, as an angle (a quarter turn to
\* one side or the other).  Stand-in for the polynomials in T and for
\* epsilnOwen1986 and swiLdpPeps.
epsilnValue(poly, J) ==
    LET off == CASE poly = "IAU_1976" -> 0 [] poly = "IAU_2000" -> 1
                 [] poly = "IAU_2006" -> 0 [] poly = "NEWCOMB" -> 1
                 [] poly = "LASKAR_1986" -> 1 [] OTHER -> 0
    IN  << 2 * ((Tcty(J) + off) % 2) - 1, 0 >>

swiEpsiln(J, iflag) == epsilnValue(swiEpsilnPoly(J), J)

\* The angles Z, z, TH of precess1 for a method of its switch.
\* Stand-in for the polynomials in T of each case.
precess1Angles(precMethod, J) ==
    LET T == Tcty(J)
        k == CASE precMethod = "SEMOD_PREC_IAU_1976" -> 0
               [] precMethod = "SEMOD_PREC_IAU_2000" -> 1
               [] precMethod = "SEMOD_PREC_IAU_2006" -> 2
               [] precMethod = "SEMOD_PREC_BRETAGNON_2003" -> 3
               [] OTHER -> 4
    IN  << <<0, ((T + k) % 3) - 1>>, <<0, ((2 * T + k + 1) % 3) - 1>>,
           <<0, ((T + 2 * k + 2) % 3) - 1>> >>

Precess1Methods ==
    {"SEMOD_PREC_IAU_1976", "SEMOD_PREC_IAU_2000", "SEMOD_PREC_IAU_2006",
     "SEMOD_PREC_BRETAGNON_2003", "SEMOD_PREC_NEWCOMB"}

\* The products of sines and cosines that make up the rotation matrix of precess1.
precess1Matrix(sinth, costh, sinZ, cosZ, sinz, cosz, A, B) ==
    [m11 |-> RSub(RMul(A, cosz), RMul(sinZ, sinz)),
     m12 |-> RAdd(RMul(B, cosz), RMul(cosZ, sinz)),
     m13 |-> RMul(sinth, cosz),
     m21 |-> RAdd(RMul(A, sinz), RMul(sinZ, cosz)),
     m22 |-> RSub(RMul(B, sinz), RMul(cosZ, cosz)),
     m23 |-> RMul(sinth, sinz),
     m31 |-> RMul(cosZ, sinth),
     m32 |-> RMul(sinZ, sinth),
     m33 |-> costh]

\* if direction < 0 { from J2000.0 to J } else { from J to J2000.0 }
precess1Apply(Rv, direction, m) ==
    IF direction < 0
    THEN << RSub(RSub(RMul(m.m11, Rv[1]), RMul(m.m12, Rv[2])), RMul(m.m13, Rv[3])),
            RSub(RSub(RMul(m.m21, Rv[1]), RMul(m.m22, Rv[2])), RMul(m.m23, Rv[3])),
            RAdd(RSub(RMul(m.m31, Rv[1]), RMul(m.m32, Rv[2])), RMul(m.m33, Rv[3])) >>
    ELSE << RAdd(RAdd(RMul(m.m11, Rv[1]), RMul(m.m21, Rv[2])), RMul(m.m31, Rv[3])),
            RSub(RSub(RNeg(RMul(m.m12, Rv[1])), RMul(m.m22, Rv[2])), RMul(m.m32, Rv[3])),
            RAdd(RSub(RNeg(RMul(m.m13, Rv[1])), RMul(m.m23, Rv[2])), RMul(m.m33, Rv[3])) >>

precess1Trig(Rv, direction, sinth, costh, sinZ, cosZ, sinz, cosz) ==
    precess1Apply(Rv, direction,
        precess1Matrix(sinth, costh, sinZ, cosZ, sinz, cosz,
                       RMul(cosZ, costh), RMul(sinZ, costh)))

precess1Turn(Rv, direction, Z, z, TH) ==
    precess1Trig(Rv, direction, Sin(TH), Cos(TH), Sin(Z), Cos(Z), Sin(z), Cos(z))

precess1Switch(Rv, direction, ang) ==
    precess1Turn(Rv, direction, ang[1], ang[2], ang[3])

\* precess1 past its J == J2000 test: the switch and the matrix product.
precess1Rotate(Rv, J, direction, precMethod) ==
    IF precMethod \notin Precess1Methods
    THEN [retc |-> 0, R |-> Rv]
    ELSE [retc |-> 0, R |-> precess1Switch(Rv, direction, precess1Angles(precMethod, J))]

precess1NoFixedPoint(Rv, J, direction, precMethod) ==
    precess1Rotate(Rv, J, direction, precMethod)

precess1(Rv, J, direction, precMethod) ==
    IF J = J2000
    THEN [retc |-> 0, R |-> Rv]
    ELSE precess1Rotate(Rv, J, direction, precMethod)

\* precess2: pA, W (node) and the inclination for the coefficient set of a method;
\* a method outside the switch takes Laskar's.  Stand-in for the three Horner loops.
precess2Angles(precMethod, J) ==
    LET T == Tcty(J)
        W == 2 * ((T + (IF precMethod = "SEMOD_PREC_SIMON_1994" THEN 1 ELSE 0)) % 2) - 1
    IN  [pA |-> CASE precMethod = "SEMOD_PREC_SIMON_1994" -> <<0, -W>>
                  [] precMethod = "SEMOD_PREC_WILLIAMS_1994" -> <<0, W>>
                  [] OTHER -> <<0, -2 * W>>,
         W |-> <<0, W>>,
         incl |-> IF precMethod = "SEMOD_PREC_WILLIAMS_1994" THEN <<0, -W>> ELSE <<0, W>>]

\* z = B*x[i] + A*x[j]; x[j] = -A*x[i] + B*x[j]; x[i] = z
rotatePairBA(u, v, B, A) ==
    << RAdd(RMul(B, u), RMul(A, v)), RAdd(RNeg(RMul(A, u)), RMul(B, v)) >>

\* B = math.Cos(ang), A = math.Sin(ang)
rotatePair(u, v, ang) == rotatePairBA(u, v, Cos(ang), Sin(ang))

setYZ(x, p) == << x[1], p[1], p[2] >>

setXY(x, p) == << p[1], p[2], x[3] >>

\* Rotation about the x axis: acts on x[1], x[2] of the code.
rotateX(x, ang) == setYZ(x, rotatePair(x[2], x[3], ang))

\* Rotation about the z axis: acts on x[0], x[1] of the code.
rotateZ(x, ang) == setXY(x, rotatePair(x[1], x[2], ang))

\* "Rotate about new z axis back from the node": the angle of that rotation.
nodeBackAngleNoPrec(direction, W, pA) == AngNeg(W)

nodeBackAngle(direction, W, pA) ==
    IF direction = 1 THEN AngNeg(W) ELSE AngAdd(AngNeg(W), AngNeg(pA))

\* The five elementary rotations of precess2; epsJ and eps0 are swiEpsiln at J
\* and at J2000.
precess2Rotate(Rv, direction, c, epsJ, eps0) ==
    rotateX(
      rotateZ(
        rotateX(
          rotateZ(
            rotateX(Rv, IF direction = 1 THEN epsJ ELSE eps0),
            IF direction = 1 THEN AngAdd(c.W, c.pA) ELSE c.W),
          IF direction = 1 THEN AngNeg(c.incl) ELSE c.incl),
        nodeBackAngle(direction, c.W, c.pA)),
      AngNeg(IF direction = 1 THEN eps0 ELSE epsJ))

precess2(Rv, J, iflag, direction, precMethod) ==
    IF J = J2000
    THEN [retc |-> 0, R |-> Rv]
    ELSE [retc |-> 0,
          R |-> precess2Rotate(Rv, direction, precess2Angles(precMethod, J),
                               swiEpsiln(J, iflag), swiEpsiln(J2000, iflag))]

PrecLongIds ==
    {"0", "SEMOD_PREC_IAU_1976", "SEMOD_PREC_LASKAR_1986", "SEMOD_PREC_WILL_EPS_LASK",
     "SEMOD_PREC_WILLIAMS_1994", "SEMOD_PREC_SIMON_1994", "SEMOD_PREC_IAU_2000",
     "SEMOD_PREC_BRETAGNON_2003", "SEMOD_PREC_IAU_2006", "SEMOD_PREC_VONDRAK_2011",
     "SEMOD_PREC_OWEN_1990", "SEMOD_PREC_NEWCOMB", "SEMOD_PREC_99"}

PrecShortIds ==
    {"0", "SEMOD_PREC_IAU_1976", "SEMOD_PREC_IAU_2000", "SEMOD_PREC_IAU_2006",
     "SEMOD_PREC_VONDRAK_2011", "SEMOD_PREC_99"}

\* Epochs of the obliquity queries: whole centuries around the ends of the
\* short-term windows, and one tick to either side of each end.
EpsEpochs ==
    LET ends == {0, PREC_IAU_1976_CTIES, PREC_IAU_2006_CTIES}
    IN  UNION { {J2000 + s * c * Century + o : o \in {-1, 0, 1}} :
                c \in ends, s \in {-1, 1} }

InitEps ==
    /\ \E l \in PrecLongIds, sh \in PrecShortIds :
          AstroModels = [AstroModelsUnset EXCEPT !.SE_MODEL_PREC_LONGTERM = l,
                                                 !.SE_MODEL_PREC_SHORTTERM = sh]
    /\ NutIdle
    /\ PrecIdle
    /\ ChebIdle
    /\ DeltatIdle
    /\ BiasIdle
    /\ CacheIdle
    /\ NutWatchIdle
    /\ DtSizeIdle
    /\ GenIdle
    /\ CutIdle
    /\ CartSpIdle
    /\ TidIdle
    /\ VersionIdle
    /\ UtcIdle
    /\ DateIdle
    /\ CoordIdle

\* A caller queries swiEpsiln(J, iflag).
SwiEpsiln ==
    \E J \in EpsEpochs, iflag \in NutIflagSet :
        /\ epsCall' = [op |-> "swiEpsiln", J |-> J, poly |-> swiEpsilnPoly(J),
                       eps |-> swiEpsiln(J, iflag)]
        /\ UNCHANGED <<AstroModels, R, precArgs, precLog, notPrec>>

NextEps == SwiEpsiln

SpecEps == InitEps /\ [][NextEps]_vars

VecInputs ==
    { << RI(1), RI(0), RI(0) >>, << RI(1), RI(2), RI(-1) >>, << RI(0), RI(-1), RI(2) >> }

PrecEpochs == { J2000 + c * Century : c \in (-MaxCty) .. MaxCty }

PrecMethods == Precess1Methods \cup
    {"SEMOD_PREC_LASKAR_1986", "SEMOD_PREC_SIMON_1994", "SEMOD_PREC_WILLIAMS_1994",
     "SEMOD_PREC_99"}

\* The caller holds a vector and converts it between one epoch J and J2000
\* with one method.
TakeVector ==
    /\ R \in VecInputs
    /\ precArgs \in [J : PrecEpochs, precMethod : PrecMethods]
    /\ precLog = <<>>

InitPrec ==
    /\ \E l \in {"0", "SEMOD_PREC_LASKAR_1986"}, sh \in {"0", "SEMOD_PREC_IAU_2000"} :
          AstroModels = [AstroModelsUnset EXCEPT !.SE_MODEL_PREC_LONGTERM = l,
                                                 !.SE_MODEL_PREC_SHORTTERM = sh]
    /\ NutIdle
    /\ epsCall = NoEpsCall
    /\ TakeVector
    /\ ChebIdle
    /\ DeltatIdle
    /\ BiasIdle
    /\ CacheIdle
    /\ NutWatchIdle
    /\ DtSizeIdle
    /\ GenIdle
    /\ CutIdle
    /\ CartSpIdle
    /\ TidIdle
    /\ VersionIdle
    /\ UtcIdle
    /\ DateIdle
    /\ CoordIdle

\* The caller takes up a new vector, epoch and method.
NewVector ==
    /\ precLog # <<>>
    /\ R' \in VecInputs
    /\ precArgs' \in [J : PrecEpochs, precMethod : PrecMethods]
    /\ precLog' = <<>>
    /\ UNCHANGED <<AstroModels, epsCall, notPrec>>

\* precess1(R, J, direction, precMethod) on the caller's vector.
Precess1 ==
    \E direction \in {J_TO_J2000, J2000_TO_J} :
        LET r == precess1(R, precArgs.J, direction, precArgs.precMethod)
        IN  /\ Len(precLog) < MaxCalls
            /\ R' = r.R
            /\ precLog' = Append(precLog,
                   [fn |-> "precess1", J |-> precArgs.J, direction |-> direction,
                    precMethod |-> precArgs.precMethod, Rin |-> R, Rout |-> r.R,
                    retc |-> r.retc])
            /\ UNCHANGED <<AstroModels, epsCall, precArgs, notPrec>>

\* precess2(R, J, iflag, direction, precMethod) on the caller's vector.
Precess2 ==
    \E direction \in {J_TO_J2000, J2000_TO_J} :
        LET r == precess2(R, precArgs.J, {}, direction, precArgs.precMethod)
        IN  /\ Len(precLog) < MaxCalls
            /\ R' = r.R
            /\ precLog' = Append(precLog,
                   [fn |-> "precess2", J |-> precArgs.J, direction |-> direction,
                    precMethod |-> precArgs.precMethod, Rin |-> R, Rout |-> r.R,
                    retc |-> r.retc])
            /\ UNCHANGED <<AstroModels, epsCall, precArgs, notPrec>>

NextPrec == NewVector \/ Precess1 \/ Precess2

SpecPrec == InitPrec /\ [][NextPrec]_vars

(***************************************************************************)
(* Claims on obliquity and precession                                      *)
(***************************************************************************)

\* C3: whenever the epoch lies inside the validity window of the configured
\* short-term model (IAU 1976, IAU 2000 or IAU 2006), swiEpsiln evaluates that
\* model's polynomial, whatever the long-term model is.
C3_ShortTermPolynomialWins ==
    (epsCall.op = "swiEpsiln") =>
        LET sh == AstroModels.SE_MODEL_PREC_SHORTTERM
            absT == Abs(epsCall.J - J2000)
        IN  /\ (sh = "SEMOD_PREC_IAU_1976" /\ absT <= PREC_IAU_1976_CTIES * Century)
                   => epsCall.poly = "IAU_1976"
            /\ (sh = "SEMOD_PREC_IAU_2000" /\ absT <= PREC_IAU_2000_CTIES * Century)
                   => epsCall.poly = "IAU_2000"
            /\ (sh = "SEMOD_PREC_IAU_2006" /\ absT <= PREC_IAU_2006_CTIES * Century)
                   => epsCall.poly = "IAU_2006"

\* C4: precess1 and precess2 called with J exactly J2000 return 0 and leave
\* the vector as it was, for every method and both directions.
C4_J2000IsFixedPoint ==
    \A i \in 1 .. Len(precLog) :
        precLog[i].J = J2000 => (precLog[i].retc = 0 /\ precLog[i].Rout = precLog[i].Rin)

\* C4 witness: both routines have been called at J2000 on a vector.
C4_Witness ==
    /\ Len(precLog) = 2
    /\ precLog[1].fn = "precess1" /\ precLog[1].J = J2000
    /\ precLog[1].precMethod = "SEMOD_PREC_IAU_2000"
    /\ precLog[1].direction = J_TO_J2000
    /\ precLog[2].fn = "precess2" /\ precLog[2].J = J2000
    /\ R = precLog[1].Rin

\* C6: for the same routine, epoch and method, rotating a vector to J2000 and
\* then from J2000 gives back the vector the caller started with.
C6_ToThenFromJ2000IsIdentity ==
    ( /\ Len(precLog) = 2
      /\ precLog[1].fn = precLog[2].fn
      /\ precLog[1].J = precLog[2].J
      /\ precLog[1].precMethod = precLog[2].precMethod
      /\ precLog[1].direction = J_TO_J2000
      /\ precLog[2].direction = J2000_TO_J )
    => R = precLog[1].Rin

\* C6 witness: a precess2 round trip away from J2000 whose first leg moved the vector.
C6_Witness ==
    /\ Len(precLog) = 2
    /\ precLog[1].fn = "precess2" /\ precLog[2].fn = "precess2"
    /\ precLog[1].J = precLog[2].J /\ precLog[1].J # J2000
    /\ precLog[1].precMethod = precLog[2].precMethod
    /\ precLog[1].direction = J_TO_J2000 /\ precLog[2].direction = J2000_TO_J
    /\ precLog[1].Rout # precLog[1].Rin
    /\ R = precLog[1].Rin

(***************************************************************************)
(* Derivative of a Chebyshev series (swephlib.c swi_edcheb)                *)
(*                                                                         *)
(* Coefficients are integers and the abscissa x is a multiple of 1/2, held *)
(* as x2 = 2x, the only form the routine uses it in; every intermediate    *)
(* value is then an integer and b_j - b_{j-2} is even.                     *)
(***************************************************************************)
MaxNcf == 4          \* longest coefficient array

\* One pass of the loop body for index j; st holds bjpl, xjpl, bf, bj, xj, bjp2, xjp2.
edchebStepSingleWeight(j, x2, coef, st) ==
    LET dj == j
        xj == coef[j + 1] * dj + st.xjp2
        bj == x2 * st.bjpl - st.bjp2 + xj
    IN  [bjpl |-> bj, xjpl |-> xj, bf |-> st.bjp2, bj |-> bj, xj |-> xj,
         bjp2 |-> st.bjpl, xjp2 |-> st.xjpl]

edchebStep(j, x2, coef, st) ==
    LET dj == j + j
        xj == coef[j + 1] * dj + st.xjp2
        bj == x2 * st.bjpl - st.bjp2 + xj
    IN  [bjpl |-> bj, xjpl |-> xj, bf |-> st.bjp2, bj |-> bj, xj |-> xj,
         bjp2 |-> st.bjpl, xjp2 |-> st.xjpl]

\* for j := ncf - 1; j >= 1; j--
RECURSIVE edchebLoop(_, _, _, _)
edchebLoop(j, x2, coef, st) ==
    IF j >= 1 THEN edchebLoop(j - 1, x2, coef, edchebStep(j, x2, coef, st)) ELSE st

swiEdcheb(x2, coef, ncf) ==
    LET zero == [bjpl |-> 0, xjpl |-> 0, bf |-> 0, bj |-> 0, xj |-> 0,
                 bjp2 |-> 0, xjp2 |-> 0]
        st == edchebLoop(ncf - 1, x2, coef, zero)
    IN  (st.bj - st.bf) \div 2

CoefValues == {-1, 0, 2}

InitCheb ==
    /\ AstroModels = AstroModelsUnset
    /\ NutIdle
    /\ PrecIdle
    /\ DeltatIdle
    /\ BiasIdle
    /\ CacheIdle
    /\ NutWatchIdle
    /\ DtSizeIdle
    /\ GenIdle
    /\ CutIdle
    /\ CartSpIdle
    /\ TidIdle
    /\ VersionIdle
    /\ UtcIdle
    /\ DateIdle
    /\ CoordIdle
    /\ \E n \in 0 .. MaxNcf :
          chebIn \in [x2 : (-2) .. 2, coef : [1 .. n -> CoefValues]]
    /\ chebCall = NoChebCall

\* swiEdcheb(x, coef, ncf) on the caller's series, ncf at most len(coef).
SwiEdcheb ==
    \E ncf \in 0 .. Len(chebIn.coef) :
        /\ chebCall' = [op |-> "swiEdcheb", ncf |-> ncf,
                        result |-> swiEdcheb(chebIn.x2, chebIn.coef, ncf)]
        /\ UNCHANGED <<chebIn, notCheb>>

NextCheb == SwiEdcheb

SpecCheb == InitCheb /\ [][NextCheb]_vars

\* U_n(x), the Chebyshev polynomial of the second kind, at x = x2/2:
\* T_j'(x) = j * U_{j-1}(x).
RECURSIVE ChebU(_, _)
ChebU(n, x2) ==
    IF n = 0 THEN 1
    ELSE IF n = 1 THEN x2
    ELSE x2 * ChebU(n - 1, x2) - ChebU(n - 2, x2)

RECURSIVE SeriesDerivative(_, _, _)
SeriesDerivative(j, x2, coef) ==
    IF j < 1 THEN 0
    ELSE coef[j + 1] * j * ChebU(j - 1, x2) + SeriesDerivative(j - 1, x2, coef)

\* C5: swiEdcheb(x, coef, ncf) is the derivative of the Chebyshev series, the sum
\* over j = 1 .. ncf-1 of coef[j] * T_j'(x); it does not depend on coef[0] and is
\* 0 when ncf <= 1.
C5_EdchebIsSeriesDerivative ==
    (chebCall.op = "swiEdcheb") =>
        /\ chebCall.result = SeriesDerivative(chebCall.ncf - 1, chebIn.x2, chebIn.coef)
        /\ chebCall.ncf >= 1 =>
              chebCall.result =
                  swiEdcheb(chebIn.x2, [chebIn.coef EXCEPT ![1] = 7], chebCall.ncf)
        /\ chebCall.ncf <= 1 => chebCall.result = 0

\* C5 witness: a series of four terms with a non-zero constant term, differentiated
\* off the centre of the interval to a non-zero value.
C5_Witness ==
    /\ chebCall.op = "swiEdcheb" /\ chebCall.ncf = 4
    /\ chebIn.coef[1] # 0 /\ chebIn.coef[4] # 0 /\ chebIn.coef[3] # 0
    /\ chebIn.x2 = 1
    /\ chebCall.result # 0

(***************************************************************************)
(* Delta T from the Astronomical Almanac table (swephlib.c deltat_aa,      *)
(* adjust_for_tidacc, init_dt), in its two ports: deltaTAa of swephlib     *)
(* with early returns, deltaAA of sweph.go with a goto.                    *)
(*                                                                         *)
(* Time is the year Y = 2000 + (tjd - 2451544.5) / 365.25 in quarter       *)
(* years: Yq = 4 * Y.  A Delta T is an integer number of 1/SecUnits        *)
(* seconds; with the table held in hundredths of a second every term of    *)
(* Bessel's formula is then an integer.  The closing division by 86400     *)
(* only changes the unit to 1/SecUnits of 1/86400 day.  Tidal              *)
(* accelerations are in hundredths of arcsec/cty^2.  Products that are not *)
(* whole are rounded down.  No Delta T file exists in the ephemeris path.  *)
(***************************************************************************)
YearSpan == 3        \* years looked at around each landmark year of the code

TABSTART == 1620
TABEND == 2028
TABSIZ == TABEND - TABSTART + 1
TABSIZ_SPACE == TABSIZ + 100

SecUnits == 100 * 12288

SE_TIDAL_26 == (-26) * 100

SEMOD_DELTAT_DEFAULT == "SEMOD_DELTAT_STEPHENSON_ETC_2016"

\* The initialiser of dt, rounded to hundredths of a second.
dtValues ==
  <<
    12400, 11900, 11500, 11000, 10600, 10200, 9800, 9500, 9100, 8800, 8500, 8200, 7900, 7700,
    7400, 7200, 7000, 6700, 6500, 6300, 6200, 6000, 5800, 5700, 5500, 5400, 5300, 5100,
    5000, 4900, 4800, 4700, 4600, 4500, 4400, 4300, 4200, 4100, 4000, 3800, 3700, 3600,
    3500, 3400, 3300, 3200, 3100, 3000, 2800, 2700, 2600, 2500, 2400, 2300, 2200, 2100,
    2000, 1900, 1800, 1700, 1600, 1500, 1400, 1400, 1300, 1200, 1200, 1100, 1100, 1000,
    1000, 1000, 900, 900, 900, 900, 900, 900, 900, 900, 900, 900, 900, 900,
    900, 900, 900, 900, 1000, 1000, 1000, 1000, 1000, 1000, 1000, 1000, 1000, 1100,
    1100, 1100, 1100, 1100, 1100, 1100, 1100, 1100, 1100, 1100, 1100, 1100, 1100, 1100,
    1100, 1100, 1200, 1200, 1200, 1200, 1200, 1200, 1200, 1200, 1200, 1200, 1300, 1300,
    1300, 1300, 1300, 1300, 1300, 1400, 1400, 1400, 1400, 1400, 1400, 1400, 1500, 1500,
    1500, 1500, 1500, 1500, 1500, 1600, 1600, 1600, 1600, 1600, 1600, 1600, 1600, 1600,
    1600, 1700, 1700, 1700, 1700, 1700, 1700, 1700, 1700, 1700, 1700, 1700, 1700, 1700,
    1700, 1700, 1700, 1700, 1600, 1600, 1600, 1600, 1500, 1500, 1400, 1400, 1370, 1340,
    1310, 1290, 1270, 1260, 1250, 1250, 1250, 1250, 1250, 1250, 1250, 1250, 1250, 1250,
    1250, 1240, 1230, 1220, 1200, 1170, 1140, 1110, 1060, 1020, 960, 910, 860, 800,
    750, 700, 660, 630, 600, 580, 570, 560, 560, 560, 570, 580, 590, 610,
    620, 630, 650, 660, 680, 690, 710, 720, 730, 740, 750, 760, 770, 770,
    780, 780, 788, 782, 754, 697, 640, 602, 541, 410, 292, 182, 161, 10,
    -102, -128, -269, -324, -364, -454, -471, -511, -540, -542, -520, -546, -546, -579,
    -563, -564, -580, -566, -587, -601, -619, -664, -644, -647, -609, -576, -466, -374,
    -272, -154, -2, 124, 264, 386, 537, 614, 775, 913, 1046, 1153, 1336, 1465,
    1601, 1720, 1824, 1906, 2025, 2095, 2116, 2225, 2241, 2303, 2349, 2362, 2386, 2449,
    2434, 2408, 2402, 2400, 2387, 2395, 2386, 2393, 2373, 2392, 2396, 2402, 2433, 2483,
    2530, 2570, 2624, 2677, 2728, 2778, 2825, 2871, 2915, 2957, 2997, 3036, 3072, 3107,
    3135, 3168, 3218, 3268, 3315, 3359, 3400, 3447, 3503, 3573, 3654, 3743, 3829, 3920,
    4018, 4117, 4223, 4337, 4448, 4548, 4646, 4752, 4853, 4959, 5054, 5138, 5217, 5296,
    5379, 5434, 5487, 5532, 5582, 5630, 5686, 5757, 5831, 5912, 5998, 6079, 6163, 6230,
    6297, 6347, 6383, 6409, 6430, 6447, 6457, 6469, 6485, 6515, 6546, 6578, 6607, 6632,
    6660, 6691, 6728, 6764, 6810, 6859, 6897, 6922, 6936, 6936, 6929, 6918, 6910, 6900,
    6890, 6880, 6880
  >>

\* dt of swephlib is an array of TABSIZ_SPACE elements, zero past the initialiser;
\* dt of sweph.go is a slice of the initialiser's length.
dt == [cs |-> dtValues, len |-> TABSIZ_SPACE]

dtSweph == [cs |-> dtValues, len |-> Len(dtValues)]

dtAt(t, i) == IF i < Len(t.cs) THEN t.cs[i + 1] ELSE 0

\* floor(a * b / c), computed within 32 bits.
MulDiv(a, b, c) == (a \div c) * b + ((a % c) * b) \div c

\* "Find table size": for i := tabsiz - 1; i < TABSIZ_SPACE; i++
RECURSIVE findTableSize(_, _, _)
findTableSize(t, i, tabsiz) ==
    IF i >= TABSIZ_SPACE THEN [panic |-> FALSE, tabsiz |-> tabsiz - 1]
    ELSE IF i >= t.len THEN [panic |-> TRUE, tabsiz |-> 0]
    ELSE IF dtAt(t, i) = 0 THEN [panic |-> FALSE, tabsiz |-> tabsiz - 1]
    ELSE findTableSize(t, i + 1, tabsiz + 1)

\* initDt on table t; done is InitDtDone before the call.  The first call finds
\* no file and returns TABSIZ; a later call measures the table.
initDt(t, done) ==
    IF ~done
    THEN [panic |-> FALSE, tabsiz |-> TABSIZ]
    ELSE findTableSize(t, 2001 - TABSTART, 2001 - TABSTART + 1)

adjustForTidacc(ans, yq, tidAcc, tidAcc0, adjustAfter1955) ==
    IF yq < 4 * 1955 \/ adjustAfter1955
    THEN ans - MulDiv(MulDiv((yq - 4 * 1955) * (yq - 4 * 1955), 4368, 625),
                      tidAcc - tidAcc0, 100)
    ELSE ans

\* "Make table of first differences"
firstDifferences(t, tabsiz, iy) ==
    [i \in 0 .. 4 |->
        IF (iy - 2 + i < 0) \/ (iy - 2 + i + 1 >= tabsiz)
        THEN 0
        ELSE dtAt(t, iy - 2 + i + 1) - dtAt(t, iy - 2 + i)]

\* for i := 0; i < n; i++ { d[i] = d[i+1] - d[i] }
nextDifferences(d, n) ==
    [i \in 0 .. 4 |-> IF i < n THEN d[i + 1] - d[i] ELSE d[i]]

tableDone(ans) == [panic |-> FALSE, done |-> TRUE, ans |-> ans]

\* The body of "if Y <= float64(tabend)" up to the fourth differences: the
\* interpolated value, and whether it was left for the label done before the
\* fourth order.  pq is the fraction of the year in quarters.
besselOrders(t, tabsiz, iy, pq, d2, d3, d4) ==
    LET a0 == dtAt(t, iy) * 12288
        a1 == a0 + pq * 3072 * (dtAt(t, iy + 1) - dtAt(t, iy))
        a2 == a1 + 192 * pq * (pq - 4) * (d2[1] + d2[2])
        a3 == a2 + 32 * (pq - 2) * pq * (pq - 4) * d3[1]
        a4 == a3 + pq * (pq - 4) * (pq + 4) * (pq - 8) * (d4[0] + d4[1])
    IN  IF iy + 1 >= tabsiz THEN tableDone(a0)
        ELSE IF (iy - 1 < 0) \/ (iy + 2 >= tabsiz) THEN tableDone(a1)
        ELSE IF iy + 2 >= tabsiz THEN tableDone(a2)
        ELSE IF (iy - 2 < 0) \/ (iy + 3 > tabsiz) THEN tableDone(a3)
        ELSE [panic |-> FALSE, done |-> FALSE, ans |-> a4]

besselThird(t, tabsiz, iy, pq, d2, d3) ==
    besselOrders(t, tabsiz, iy, pq, d2, d3, nextDifferences(d3, 2))

besselSecond(t, tabsiz, iy, pq, d2) ==
    besselThird(t, tabsiz, iy, pq, d2, nextDifferences(d2, 3))

\* iy := int(math.Floor(Y) - TABSTART); dt[iy] with iy < 0 is out of range.
besselInterpolation(t, tabsiz, yq) ==
    IF (yq \div 4) - TABSTART < 0
    THEN [panic |-> TRUE, done |-> TRUE, ans |-> 0]
    ELSE besselSecond(t, tabsiz, (yq \div 4) - TABSTART, yq % 4,
             nextDifferences(firstDifferences(t, tabsiz, (yq \div 4) - TABSTART), 4))

\* B*B*B*121/30000000 + B*B/1250 + B*521/3000 + 64 with B = bq / 4
stephenson2016(bq) ==
    MulDiv(bq * bq, 242, 3125) * bq + MulDiv(bq * bq, 1536, 25)
        + MulDiv(bq, 266752, 5) + 64 * SecUnits

\* -20 + 31*B*B with B = 0.01 * bq / 4
stephenson1997(bq) == MulDiv(bq * bq, 5952, 25) - 20 * SecUnits

\* "slow transition from tabulated values to Stephenson formula"
slowTransition(t, tabsiz, tabend, yq, ans, ans2) ==
    IF yq <= 4 * (tabend + 100)
    THEN ans + MulDiv(ans2 - dtAt(t, tabsiz - 1) * 12288, yq - 4 * (tabend + 100), 400)
    ELSE ans

\* The long-term formula that follows the table branch.
longTermFormula(t, tabsiz, tabend, yq, deltaModel) ==
    IF deltaModel = "SEMOD_DELTAT_STEPHENSON_ETC_2016"
    THEN IF yq < 4 * 2500
         THEN slowTransition(t, tabsiz, tabend, yq, stephenson2016(yq - 4 * 2000),
                             stephenson2016(4 * (tabend - 2000)))
         ELSE slowTransition(t, tabsiz, tabend, yq,
                  MulDiv((yq - 4 * 2000) * (yq - 4 * 2000), 1248, 5) + 85 * (SecUnits \div 2),
                  0)
    ELSE slowTransition(t, tabsiz, tabend, yq, stephenson1997(yq - 4 * 1820),
                        stephenson1997(4 * (tabend - 1820)))

deltaModelOf(m) == IF m = "0" THEN SEMOD_DELTAT_DEFAULT ELSE m

deltatResult(val) == [called |-> TRUE, panic |-> FALSE, val |-> val]

deltatPanic == [called |-> TRUE, panic |-> TRUE, val |-> 0]

\* deltaTAa of swephlib past initDt.  The closure done() ends the table branch
\* where the code returns it; after the fourth differences the code goes on to the
\* long-term formula.
deltaTAaTable(yq, tidAcc, tabsiz, deltaModel, b) ==
    IF b.panic THEN deltatPanic
    ELSE IF b.done
    THEN deltatResult(adjustForTidacc(b.ans, yq, tidAcc, SE_TIDAL_26, FALSE))
    ELSE deltatResult(longTermFormula(dt, tabsiz, TABSTART + tabsiz - 1, yq, deltaModel))

deltaTAaSized(yq, tidAcc, tabsiz, deltaModel) ==
    IF yq <= 4 * (TABSTART + tabsiz - 1)
    THEN deltaTAaTable(yq, tidAcc, tabsiz, deltaModel, besselInterpolation(dt, tabsiz, yq))
    ELSE deltatResult(longTermFormula(dt, tabsiz, TABSTART + tabsiz - 1, yq, deltaModel))

deltaTAaInit(yq, tidAcc, it) ==
    IF it.panic THEN deltatPanic
    ELSE deltaTAaSized(yq, tidAcc, it.tabsiz, deltaModelOf(AstroModels.SE_MODEL_DELTAT))

deltaTAa(yq, tidAcc) == deltaTAaInit(yq, tidAcc, initDt(dt, InitDtDone))

\* deltaAA of sweph.go past initDt.  The label done closes the table branch:
\* every path through the branch is adjusted and returned there.
deltaAATable(yq, tidAcc, b) ==
    IF b.panic THEN deltatPanic
    ELSE deltatResult(adjustForTidacc(b.ans, yq, tidAcc, SE_TIDAL_26, FALSE))

deltaAASized(yq, tidAcc, tabsiz, deltaModel) ==
    IF yq <= 4 * (TABSTART + tabsiz - 1)
    THEN deltaAATable(yq, tidAcc, besselInterpolation(dtSweph, tabsiz, yq))
    ELSE deltatResult(longTermFormula(dtSweph, tabsiz, TABSTART + tabsiz - 1, yq, deltaModel))

deltaAAInit(yq, tidAcc, it) ==
    IF it.panic THEN deltatPanic
    ELSE deltaAASized(yq, tidAcc, it.tabsiz, deltaModelOf(AstroModels.SE_MODEL_DELTAT))

deltaAA(yq, tidAcc) == deltaAAInit(yq, tidAcc, initDt(dtSweph, sweDataInitDtDone))

DeltatModelIds ==
    {"0", "SEMOD_DELTAT_STEPHENSON_ETC_2016", "SEMOD_DELTAT_ESPENAK_MEEUS_2006"}

\* Quarter years within YearSpan years of the years the code branches on.
DeltatYears ==
    UNION { (4 * (y - YearSpan)) .. (4 * (y + YearSpan)) :
                y \in {TABSTART, 1955, TABEND, TABEND + 100, 2500} }

TidAccValues == {SE_TIDAL_26, -2580, -2389}

InitDeltat ==
    /\ \E m \in DeltatModelIds :
          AstroModels = [AstroModelsUnset EXCEPT !.SE_MODEL_DELTAT = m]
    /\ NutIdle
    /\ PrecIdle
    /\ ChebIdle
    /\ InitDtDone = FALSE
    /\ sweDataInitDtDone = FALSE
    /\ deltatArgs \in [Yq : DeltatYears, tidAcc : TidAccValues]
    /\ deltatLog = [taa |-> NoDeltatResult, aa |-> NoDeltatResult]
    /\ BiasIdle
    /\ CacheIdle
    /\ NutWatchIdle
    /\ DtSizeIdle
    /\ GenIdle
    /\ CutIdle
    /\ CartSpIdle
    /\ TidIdle
    /\ VersionIdle
    /\ UtcIdle
    /\ DateIdle
    /\ CoordIdle

\* deltaTAa(tjd, tidAcc) of swephlib; its initDt sets swed.InitDtDone.
DeltaTAa ==
    /\ deltatLog' = [deltatLog EXCEPT !.taa = deltaTAa(deltatArgs.Yq, deltatArgs.tidAcc)]
    /\ InitDtDone' = TRUE
    /\ UNCHANGED <<AstroModels, sweDataInitDtDone, deltatArgs, notDeltat>>

\* deltaAA(tjd, tidAcc) of sweph.go; its initDt sets sweData.InitDtDone.
DeltaAA ==
    /\ deltatLog' = [deltatLog EXCEPT !.aa = deltaAA(deltatArgs.Yq, deltatArgs.tidAcc)]
    /\ sweDataInitDtDone' = TRUE
    /\ UNCHANGED <<AstroModels, InitDtDone, deltatArgs, notDeltat>>

NextDeltat == DeltaTAa \/ DeltaAA

SpecDeltat == InitDeltat /\ [][NextDeltat]_vars

\* C7: deltaTAa returns the same value as deltaAA for the same tjd and tidal
\* acceleration; for a year within the table, TABSTART <= Y <= tabend, that value
\* is the Bessel-interpolated table value adjusted by adjustForTidacc, also when
\* all four difference orders were computed, and never the long-term formula.
C7_DeltaTAaReturnsWhatDeltaAAReturns ==
    /\ (deltatLog.taa.called /\ deltatLog.aa.called /\ ~deltatLog.aa.panic)
           => deltatLog.taa = deltatLog.aa
    /\ ( /\ deltatLog.taa.called
         /\ 4 * TABSTART <= deltatArgs.Yq /\ deltatArgs.Yq <= 4 * TABEND )
           => /\ ~deltatLog.taa.panic
              /\ deltatLog.taa.val =
                     adjustForTidacc(besselInterpolation(dt, TABSIZ, deltatArgs.Yq).ans,
                                     deltatArgs.Yq, deltatArgs.tidAcc, SE_TIDAL_26, FALSE)

(***************************************************************************)
(* Model ids without an implementation                                     *)
(***************************************************************************)

\* C8: a nutation model id that has no implementation is refused when it is
\* configured, so no calcNutation or swiNutation query runs with such an id and
\* returns success with the caller's output angles untouched.
C8_NoQuerySucceedsWithUnsupportedModel ==
    (nutCall.op \in {"calcNutation", "swiNutation"} /\ nutCall.retc = OK) =>
        AstroModels.SE_MODEL_NUT \in
            {"0", "SEMOD_NUT_IAU_1980", "SEMOD_NUT_IAU_CORR_1987", "SEMOD_NUT_IAU_2000A",
             "SEMOD_NUT_IAU_2000B", "SEMOD_NUT_WOOLARD"}

(***************************************************************************)
(* Frame bias (swephlib.c swi_bias, swi_approx_jplhor)                     *)
(*                                                                         *)
(* A coordinate is a pair <<w, f>> standing for w + f * 1e-12 with w a     *)
(* small whole number.  The bias matrices are held as rb minus the unit    *)
(* matrix in units of 1e-12; their diagonal differs from 1 by less than    *)
(* one unit, and so does the product of two off-unit parts.  Angles of the *)
(* JPL Horizons correction are in micro-arcseconds, tjd in ticks.          *)
(***************************************************************************)
NDCOR_RA_JPL == 51

dcorRaJpl ==
  <<-51257, -51103, -51065, -51503, -51224, -50796, -51161, -51181, -50932, -51064,
    -51182, -51386, -51416, -51428, -51586, -51766, -52038, -52370, -52553, -52397,
    -52340, -52676, -52348, -51964, -52444, -52364, -51988, -52212, -52370, -52523,
    -52541, -52496, -52590, -52629, -52788, -53014, -53053, -52902, -52850, -53087,
    -52635, -52185, -52588, -52292, -51796, -51961, -52055, -52134, -52165, -52141,
    -52255>>

SEMOD_BIAS_DEFAULT == "SEMOD_BIAS_IAU2006"
SEMOD_JPLHORA_DEFAULT == "SEMOD_JPLHORA_3"

\* tjd < DPSI_DEPS_IAU1980_TJD0_HORIZONS (2437684.5)
BeforeHorizonsTjd0(tjd) == 2 * tjd < 4875369 * DayRes

\* dofs of swiApproxJplhor in micro-arcseconds, for t = n / d years after
\* DCOR_RA_JPL_TJD0.
jplhorDofs(n, d) ==
    IF n < 0 THEN dcorRaJpl[1]
    ELSE IF n >= (NDCOR_RA_JPL - 1) * d THEN dcorRaJpl[NDCOR_RA_JPL]
    ELSE ((n % d) * (dcorRaJpl[(n \div d) + 1] - dcorRaJpl[(n \div d) + 2])) \div d
             + dcorRaJpl[(n \div d) + 1]

\* x[0] += dofs * DEGTORAD, or -= when backward; dofs comes in micro-arcseconds.
\* swiCartpol and swiPolcart return new slices, which are dropped.
jplhorShift(x, dofs, backward) ==
    [x EXCEPT ![1] = << x[1][1],
                        x[1][2] + (IF backward THEN -1 ELSE 1) * MulDiv(dofs, 48481, 10000) >>]

\* The flag test of swiApproxJplhor.
jplhorFlagSetEitherWay(iflag) == TRUE

jplhorFlagSet(iflag) == "SEFLG_JPLHOR_APPROX" \in iflag

swiApproxJplhor(x, tjd, iflag, backward) ==
    IF ~jplhorFlagSet(iflag) THEN x
    ELSE IF (IF AstroModels.SE_MODEL_JPLHORA_MODE = "0" THEN SEMOD_JPLHORA_DEFAULT
             ELSE AstroModels.SE_MODEL_JPLHORA_MODE) = "SEMOD_JPLHORA_2" THEN x
    ELSE jplhorShift(x, jplhorDofs(4 * tjd - 9751386 * DayRes, 1461 * DayRes), backward)

rbIau2006 ==
    << <<0, 70784, -80562>>, <<-70784, 0, -33064>>, <<80562, 33064, 0>> >>

rbIau2000 ==
    << <<0, 70783, -80562>>, <<-70783, 0, -33060>>, <<80562, 33060, 0>> >>

\* x[o+0]*rb[i][0] + x[o+1]*rb[i][1] + x[o+2]*rb[i][2], or with rb[0][i], rb[1][i],
\* rb[2][i] when transposed.
rbRow(rb, x, o, i, transposed) ==
    << x[o + i][1],
       x[o + i][2]
         + x[o + 1][1] * (IF transposed THEN rb[1][i] ELSE rb[i][1])
         + x[o + 2][1] * (IF transposed THEN rb[2][i] ELSE rb[i][2])
         + x[o + 3][1] * (IF transposed THEN rb[3][i] ELSE rb[i][3]) >>

\* xx after the loop over i: the speed part is filled only with SEFLG_SPEED.
biasProduct(rb, x, iflag, transposed) ==
    [k \in 1 .. 6 |->
        IF k <= 3 THEN rbRow(rb, x, 0, k, transposed)
        ELSE IF "SEFLG_SPEED" \in iflag THEN rbRow(rb, x, 3, k - 3, transposed)
        ELSE <<0, 0>>]

\* x[i] = xx[i] for the position, and for the speed with SEFLG_SPEED.
biasCopyBack(x, xx, iflag) ==
    [k \in 1 .. 6 |-> IF k <= 3 \/ "SEFLG_SPEED" \in iflag THEN xx[k] ELSE x[k]]

biasBackward(rb, x, iflag) == biasCopyBack(x, biasProduct(rb, x, iflag, FALSE), iflag)

biasApply(rb, x, tjd, iflag, backward) ==
    IF backward
    THEN biasBackward(rb, swiApproxJplhor(x, tjd, iflag, TRUE), iflag)
    ELSE biasCopyBack(x, swiApproxJplhor(biasProduct(rb, x, iflag, TRUE), tjd, iflag, FALSE),
                      iflag)

biasModels(biasModel, jplhoraModel, x, tjd, iflag, backward) ==
    IF biasModel = "SEMOD_BIAS_NONE" THEN x
    ELSE IF /\ "SEFLG_JPLHOR_APPROX" \in iflag
            /\ \/ jplhoraModel = "SEMOD_JPLHORA_2"
               \/ jplhoraModel = "SEMOD_JPLHORA_3" /\ BeforeHorizonsTjd0(tjd)
    THEN x
    ELSE biasApply(IF biasModel = "SEMOD_BIAS_IAU2006" THEN rbIau2006 ELSE rbIau2000,
                   x, tjd, iflag, backward)

SwiBias(x, tjd, iflag, backward) ==
    biasModels(IF AstroModels.SE_MODEL_BIAS = "0" THEN SEMOD_BIAS_DEFAULT
               ELSE AstroModels.SE_MODEL_BIAS,
               IF AstroModels.SE_MODEL_JPLHORA_MODE = "0" THEN SEMOD_JPLHORA_DEFAULT
               ELSE AstroModels.SE_MODEL_JPLHORA_MODE,
               x, tjd, iflag, backward)

BiasModelIds == {"0", "SEMOD_BIAS_NONE", "SEMOD_BIAS_IAU2000", "SEMOD_BIAS_IAU2006"}

JplhoraModelIds == {"0", "SEMOD_JPLHORA_1", "SEMOD_JPLHORA_2"}

BiasVectors ==
    { << <<1, 0>>, <<0, 0>>, <<0, 0>>, <<0, 0>>, <<1, 0>>, <<0, 0>> >>,
      << <<1, 0>>, <<2, 0>>, <<-1, 0>>, <<0, 0>>, <<-1, 0>>, <<2, 0>> >> }

\* Whole days on either side of the epochs swiApproxJplhor and SwiBias compare
\* tjd with: 2437684.5, 2437846.5 and 50 years after it, and one day between.
BiasEpochs ==
    { d * DayRes : d \in {2437684, 2437685, 2437846, 2437847, 2438500, 2456108, 2456110} }

InitBias ==
    /\ \E b \in BiasModelIds, h \in JplhoraModelIds :
          AstroModels = [AstroModelsUnset EXCEPT !.SE_MODEL_BIAS = b,
                                                 !.SE_MODEL_JPLHORA_MODE = h]
    /\ NutIdle
    /\ PrecIdle
    /\ ChebIdle
    /\ DeltatIdle
    /\ biasArgs \in [x : BiasVectors, iflag : IflagSet, backward : BOOLEAN]
    /\ biasLog = <<>>
    /\ CacheIdle
    /\ NutWatchIdle
    /\ DtSizeIdle
    /\ GenIdle
    /\ CutIdle
    /\ CartSpIdle
    /\ TidIdle
    /\ VersionIdle
    /\ UtcIdle
    /\ DateIdle
    /\ CoordIdle

\* SwiBias(x, tjd, iflag, backward) on a copy of the caller's vector.
SwiBiasCall ==
    \E tjd \in BiasEpochs :
        /\ Len(biasLog) < MaxCalls
        /\ biasLog' = Append(biasLog,
               [op |-> "SwiBias", tjd |-> tjd,
                x |-> SwiBias(biasArgs.x, tjd, biasArgs.iflag, biasArgs.backward)])
        /\ UNCHANGED <<AstroModels, biasArgs, notBias>>

NextBias == SwiBiasCall

SpecBias == InitBias /\ [][NextBias]_vars

Dseg == 2            \* ticks covered by one segment
MaxSegs == 3         \* segments in the file
Tfstart == 1         \* first tick the file covers

CacheTimes == Tfstart .. Tfstart + MaxSegs * Dseg - 1

CacheFlags == {{}, {"SEFLG_SPEED"}}

\* (1) exact hit: requested time and flag set equal the cached ones.
resultCached(pd, tjd, iflag) == pd.Teval = tjd /\ pd.Xflgs = iflag

\* (2) the cached segment covers tjd, its end included.
segmentCoversClosed(pd, tjd) == pd.Tseg0 <= tjd /\ tjd <= pd.Tseg1

\* (2) the cached segment covers tjd: tjd in [Tseg0, Tseg1).
segmentCovers(pd, tjd) == pd.Tseg0 <= tjd /\ tjd < pd.Tseg1

\* Segment number floor((tjd - Tfstart) / Dseg) and the interval it is valid for.
loadSegment(pd, tjd) ==
    [pd EXCEPT !.Tseg0 = Tfstart + ((tjd - Tfstart) \div Dseg) * Dseg,
               !.Tseg1 = Tfstart + ((tjd - Tfstart) \div Dseg) * Dseg + Dseg]

\* (3)-(7): the result is a function of the segment, the time and the flags.
evaluateSegment(pd, tjd, iflag) == <<pd.Tseg0, tjd, iflag>>

\* (8) update the body's cache with the evaluation made on segment seg.
saveResult(seg, tjd, iflag) ==
    [seg EXCEPT !.Teval = tjd, !.Xflgs = iflag, !.X = evaluateSegment(seg, tjd, iflag)]

\* computePosition for one body: the body's state after the query and the segment
\* loads and evaluations it made.
computePosition(pd, tjd, iflag) ==
    IF resultCached(pd, tjd, iflag) THEN [pd |-> pd, nload |-> 0, neval |-> 0]
    ELSE IF segmentCovers(pd, tjd)
    THEN [pd |-> saveResult(pd, tjd, iflag), nload |-> 0, neval |-> 1]
    ELSE [pd |-> saveResult(loadSegment(pd, tjd), tjd, iflag), nload |-> 1, neval |-> 1]

posCallOf(ipl, tjd, iflag, prev, r) ==
    [op |-> "computePosition", ipl |-> ipl, tjd |-> tjd, iflag |-> iflag, prev |-> prev,
     nload |-> r.nload, neval |-> r.neval, x |-> r.pd.X]

InitCache ==
    /\ AstroModels = AstroModelsUnset
    /\ NutIdle
    /\ PrecIdle
    /\ ChebIdle
    /\ DeltatIdle
    /\ BiasIdle
    /\ CacheIdle
    /\ NutWatchIdle
    /\ DtSizeIdle
    /\ GenIdle
    /\ CutIdle
    /\ CartSpIdle
    /\ TidIdle
    /\ VersionIdle
    /\ UtcIdle
    /\ DateIdle
    /\ CoordIdle

\* computePosition(bodyId, julianDay, flags)
ComputePosition ==
    \E ipl \in CacheBodies, tjd \in CacheTimes, iflag \in CacheFlags :
        /\ Pldat' = [Pldat EXCEPT ![ipl] = computePosition(Pldat[ipl], tjd, iflag).pd]
        /\ posCall' = posCallOf(ipl, tjd, iflag, Pldat[ipl],
                                computePosition(Pldat[ipl], tjd, iflag))
        /\ UNCHANGED notCache

\* setEphemerisPath(path): closes the files and clears the caches of every body.
SetEphemerisPath ==
    /\ posCall.op # "none"
    /\ Pldat' = [ipl \in CacheBodies |-> PlanDataZero]
    /\ posCall' = NoPosCall
    /\ UNCHANGED notCache

NextCache == ComputePosition \/ SetEphemerisPath

SpecCache == InitCache /\ [][NextCache]_vars

\* C10: per body, a query returns the cached result without evaluating only when
\* the requested time and flag set both equal the cached ones; it evaluates on the
\* cached segment without loading only when Tseg0 <= requested time < Tseg1; a
\* query at exactly Tseg1 loads a new segment exactly once; and the result is
\* always the one the segment covering the requested time gives.
C10_CacheReuseOnlyOnExactMatchOrCoveringSegment ==
    posCall.op # "none" =>
        /\ posCall.neval = 0 =>
               posCall.tjd = posCall.prev.Teval /\ posCall.iflag = posCall.prev.Xflgs
        /\ (posCall.neval = 1 /\ posCall.nload = 0) =>
               posCall.prev.Tseg0 <= posCall.tjd /\ posCall.tjd < posCall.prev.Tseg1
        /\ posCall.tjd = posCall.prev.Tseg1 => posCall.nload = 1
        /\ posCall.x = evaluateSegment(loadSegment(PlanDataZero, posCall.tjd),
                                       posCall.tjd, posCall.iflag)
        /\ \A ipl \in CacheBodies :
               Pldat[ipl] # PlanDataZero =>
                   Pldat[ipl].Tseg0 <= Pldat[ipl].Teval /\ Pldat[ipl].Teval < Pldat[ipl].Tseg1

\* C10 witness: a query at exactly Tseg1 of the body's loaded segment, which
\* loaded one segment and evaluated on it.
C10_Witness ==
    /\ posCall.op = "computePosition"
    /\ posCall.prev.Tseg1 > 0
    /\ posCall.tjd = posCall.prev.Tseg1
    /\ posCall.nload = 1
    /\ Pldat[posCall.ipl].Tseg0 = posCall.tjd

(***************************************************************************)
(* Cartesian and polar coordinates (swephlib.c swi_cartpol, swi_polcart)   *)
(*                                                                         *)
(* A cartesian slice holds whole numbers; a polar slice holds two angles   *)
(* <<q, k>> and a whole radius.  math.Sqrt, math.Atan2 and math.Atan are   *)
(* the inverses of squaring and of the exact Sin and Cos above, taken over *)
(* the angles with |k| <= MaxAngK; the slices a caller passes are those    *)
(* whose polar form is such an angle pair.  Floats have a negative zero,   *)
(* whole numbers have not.                                                 *)
(***************************************************************************)
MaxAngK == 1         \* angles q * 90 deg + k * atan(4/3) with |k| <= MaxAngK

MaxRoot == 50

IsSquare(n) == \E r \in 0 .. MaxRoot : r * r = n

\* math.Sqrt
Sqrt(n) == CHOOSE r \in 0 .. MaxRoot : r * r = n

\* An angle in thousandths of a degree, to compare angles with 0 and PI.
MilliDeg(a) == a[1] * 90000 + a[2] * 53130

Angles == { <<q, k>> : q \in -4 .. 4, k \in -MaxAngK .. MaxAngK }

PI == <<2, 0>>
TWOPI == <<4, 0>>
HalfPI == <<1, 0>>

IsAtan2(a, y, x) ==
    /\ -180000 < MilliDeg(a) /\ MilliDeg(a) <= 180000
    /\ RMul(RI(Sqrt(x * x + y * y)), Cos(a)) = RI(x)
    /\ RMul(RI(Sqrt(x * x + y * y)), Sin(a)) = RI(y)

\* math.Atan2(y, x); Atan2(0, 0) = 0
Atan2(y, x) ==
    IF x = 0 /\ y = 0 THEN <<0, 0>> ELSE CHOOSE a \in Angles : IsAtan2(a, y, x)

IsAtan(a, t) ==
    /\ -90000 < MilliDeg(a) /\ MilliDeg(a) < 90000
    /\ Sin(a) = RMul(t, Cos(a))

\* math.Atan(t), t a rational
Atan(t) == CHOOSE a \in Angles : IsAtan(a, t)

\* The latitude swiCartpol gives a vector on the z axis.
poleLatitudeNorth(z) == HalfPI

poleLatitude(z) == IF z >= 0 THEN HalfPI ELSE AngNeg(HalfPI)

\* ll[0] after "if ll[0] < 0.0 { ll[0] += TWOPI }"
cartpolLongitude(a) == IF MilliDeg(a) < 0 THEN AngAdd(a, TWOPI) ELSE a

\* ll[1]; rxy is math.Sqrt(x[0]*x[0] + x[1]*x[1])
cartpolLatitude(x, rxy) ==
    IF rxy = 0 THEN poleLatitude(x[3]) ELSE Atan(Rat(x[3], rxy))

swiCartpol(x) ==
    IF x[1] = 0 /\ x[2] = 0 /\ x[3] = 0 THEN << <<0, 0>>, <<0, 0>>, 0 >>
    ELSE << cartpolLongitude(Atan2(x[2], x[1])),
            cartpolLatitude(x, Sqrt(x[1] * x[1] + x[2] * x[2])),
            Sqrt(x[1] * x[1] + x[2] * x[2] + x[3] * x[3]) >>

\* xx[1] of swiPolcart
polcartYNoLatitude(l) == RMul(RI(l[3]), Sin(l[1]))

polcartY(l) == RMul(RMul(RI(l[3]), Cos(l[2])), Sin(l[1]))

swiPolcart(l) ==
    << RMul(RMul(RI(l[3]), Cos(l[2])), Cos(l[1])),
       polcartY(l),
       RMul(RI(l[3]), Sin(l[2])) >>

CoordValues ==
    {0} \cup { s * v : s \in {-1, 1}, v \in {3, 4, 5, 9, 12, 15, 16, 20, 25} }

\* The slices whose length and angles the model can hold.
HasPolarForm(x) ==
    /\ IsSquare(x[1] * x[1] + x[2] * x[2])
    /\ IsSquare(x[1] * x[1] + x[2] * x[2] + x[3] * x[3])
    /\ (x[1] = 0 /\ x[2] = 0) \/ (\E a \in Angles : IsAtan2(a, x[2], x[1]))
    /\ (x[1] = 0 /\ x[2] = 0)
           \/ (\E a \in Angles : IsAtan(a, Rat(x[3], Sqrt(x[1] * x[1] + x[2] * x[2]))))

InitCoord ==
    /\ AstroModels = AstroModelsUnset
    /\ NutIdle
    /\ PrecIdle
    /\ ChebIdle
    /\ DeltatIdle
    /\ BiasIdle
    /\ CacheIdle
    /\ NutWatchIdle
    /\ DtSizeIdle
    /\ GenIdle
    /\ CutIdle
    /\ CartSpIdle
    /\ TidIdle
    /\ VersionIdle
    /\ UtcIdle
    /\ DateIdle
    /\ cartIn \in { x \in CoordValues \X CoordValues \X CoordValues : HasPolarForm(x) }
    /\ coordCall = NoCoordCall

\* l := swiCartpol(x) on the caller's slice; the code writes to the new slices l
\* and ll only.
SwiCartpol ==
    /\ coordCall' = [op |-> "swiCartpol", in |-> cartIn, l |-> swiCartpol(cartIn),
                     x |-> <<>>]
    /\ UNCHANGED <<cartIn, notCoord>>

\* x := swiPolcart(l) on the slice swiCartpol returned; the code writes to the new
\* slices x and xx only.
SwiPolcart ==
    /\ coordCall.op = "swiCartpol"
    /\ coordCall' = [op |-> "swiPolcart", in |-> coordCall.l, l |-> coordCall.l,
                     x |-> swiPolcart(coordCall.l)]
    /\ UNCHANGED <<cartIn, notCoord>>

NextCoord == SwiCartpol \/ SwiPolcart

SpecCoord == InitCoord /\ [][NextCoord]_vars

\* C11: swiCartpol of the zero vector is the polar triple (0, 0, 0); of a non-zero
\* vector on the z axis it has latitude +PI/2 or -PI/2 by the sign of z, and the
\* length of the vector as radius.
C11_CartpolOfZeroAndOfPoles ==
    coordCall.op = "swiCartpol" =>
        /\ cartIn = <<0, 0, 0>> => coordCall.l = << <<0, 0>>, <<0, 0>>, 0 >>
        /\ (cartIn[1] = 0 /\ cartIn[2] = 0 /\ cartIn[3] > 0) =>
               coordCall.l[2] = HalfPI /\ coordCall.l[3] = cartIn[3]
        /\ (cartIn[1] = 0 /\ cartIn[2] = 0 /\ cartIn[3] < 0) =>
               coordCall.l[2] = AngNeg(HalfPI) /\ coordCall.l[3] = -cartIn[3]

\* C11 witness: swiCartpol was called on a vector on the negative z axis.
C11_Witness ==
    /\ coordCall.op = "swiCartpol"
    /\ cartIn[1] = 0 /\ cartIn[2] = 0 /\ cartIn[3] < 0
    /\ coordCall.l[2] = AngNeg(HalfPI)

\* C12: swiPolcart of swiCartpol of a non-zero vector is that vector, and after
\* either call the slice passed in is as it was before the call.
C12_PolcartOfCartpolIsIdentity ==
    /\ (coordCall.op = "swiPolcart" /\ cartIn # <<0, 0, 0>>) =>
           /\ coordCall.x = <<RI(cartIn[1]), RI(cartIn[2]), RI(cartIn[3])>>
           /\ coordCall.l = coordCall.in
    /\ coordCall.op = "swiCartpol" => cartIn = coordCall.in

\* C12 witness: the round trip of a vector off the axes and off the planes, with
\* a longitude that swiCartpol moved into [0, 2 PI).
C12_Witness ==
    /\ coordCall.op = "swiPolcart"
    /\ cartIn[1] < 0 /\ cartIn[2] < 0 /\ cartIn[3] < 0
    /\ MilliDeg(coordCall.l[1]) > 180000
    /\ coordCall.x = <<RI(cartIn[1]), RI(cartIn[2]), RI(cartIn[3])>>

(***************************************************************************)
(* Calendar dates and Julian days (swedate.c swe_julday, swe_revjul,       *)
(* swe_date_conversion)                                                    *)
(*                                                                         *)
(* A float64 Julian day has a finite resolution: near 2.4 million days it  *)
(* is 2^-31 day.  The model scales that resolution to 1/JdRes day: a       *)
(* Julian day is a whole number of ticks.  A time of day is given in       *)
(* sub-ticks, SubRes to a tick, and the sum of the day number and hour/24  *)
(* is rounded to the nearest tick, ties to even, as the float addition     *)
(* rounds it.  63.5, 32082.5 and 1830691.5 days are whole numbers of       *)
(* ticks.                                                                  *)
(***************************************************************************)
JdRes == 2 * 8       \* ticks per day
SubRes == 2 * 2      \* sub-ticks per tick

SE_JUL_CAL == 0
SE_GREG_CAL == 1

\* The float sum x + s / (JdRes * SubRes) for x a whole number of ticks: s
\* sub-ticks rounded to ticks.
RoundTick(s) ==
    IF s % SubRes < SubRes \div 2 THEN s \div SubRes
    ELSE IF s % SubRes > SubRes \div 2 THEN s \div SubRes + 1
    ELSE IF (s \div SubRes) % 2 = 0 THEN s \div SubRes
    ELSE s \div SubRes + 1

\* The Gregorian branch of SweJulday; u is the year, less one for January and
\* February.
juldayGreg(jd, u) ==
    jd - (IF u < 0 THEN -1 ELSE 1) * (Abs(u) \div 100 - Abs(u) \div 400) * JdRes + 2 * JdRes
       - (IF u < 0 /\ u % 100 = 0 /\ u % 400 # 0 THEN JdRes ELSE 0)

\* math.Floor(u0*365.25) + math.Floor(30.6*u1+0.000001) + float64(day) + hour/24.0 - 63.5
juldayJul(u, u1, day, hour) ==
    ((1461 * (u + 4712)) \div 4 + (306 * u1) \div 10 + day) * JdRes + RoundTick(hour)
        - 127 * (JdRes \div 2)

SweJulday(year, month, day, hour, gregflag) ==
    IF gregflag = SE_GREG_CAL
    THEN juldayGreg(juldayJul(IF month < 3 THEN year - 1 ELSE year,
                              IF month + 1 < 4 THEN month + 13 ELSE month + 1, day, hour),
                    IF month < 3 THEN year - 1 ELSE year)
    ELSE juldayJul(IF month < 3 THEN year - 1 ELSE year,
                   IF month + 1 < 4 THEN month + 13 ELSE month + 1, day, hour)

\* u0 after the Gregorian branch of SweRevjul; u0 is jd + 32082.5 in ticks.
revjulGregU1(jd, u0) ==
    u0 + (u0 \div (36525 * JdRes) - u0 \div (146100 * JdRes) - 38) * JdRes
       + (IF jd >= 3661383 * (JdRes \div 2) THEN JdRes ELSE 0)

revjulGreg(u0, u1) ==
    u0 + (u1 \div (36525 * JdRes) - u1 \div (146100 * JdRes) - 38) * JdRes

\* jmon of SweRevjul
revjulMonthNoWrap(u4) == u4 - 1

revjulMonth(u4) == IF u4 - 1 > 12 THEN u4 - 1 - 12 ELSE u4 - 1

\* u3, and u4 from u2 and math.Floor(365.25*u3)
revjulU3(u2) == (20 * u2 - 2444) \div 7305

revjulU4(u2, f3) == (10000 * (u2 - f3)) \div 306001

revjulDate(u2, u3, f3, u4) ==
    [y |-> u3 + (u4 - 2) \div 12 - 4800,
     m |-> revjulMonth(u4),
     d |-> u2 - f3 - (306001 * u4) \div 10000]

revjulFromU2(u2, u3) ==
    revjulDate(u2, u3, (1461 * u3) \div 4, revjulU4(u2, (1461 * u3) \div 4))

\* jut in ticks: (jd - math.Floor(jd+0.5) + 0.5) * 24.0 hours
revjulUt(jd) == jd - ((jd + JdRes \div 2) \div JdRes) * JdRes + JdRes \div 2

revjulFromU0(jd, u0) ==
    [date |-> revjulFromU2(u0 \div JdRes + 123, revjulU3(u0 \div JdRes + 123)),
     ut |-> revjulUt(jd)]

SweRevjul(jd, gregflag) ==
    IF gregflag = SE_GREG_CAL
    THEN revjulFromU0(jd, revjulGreg(jd + 64165 * (JdRes \div 2),
                                     revjulGregU1(jd, jd + 64165 * (JdRes \div 2))))
    ELSE revjulFromU0(jd, jd + 64165 * (JdRes \div 2))

\* The comparison of SweDateConversion.
dateMatchesYearOnly(r, y, m, d) == r.y = y

dateMatches(r, y, m, d) == r.m = m /\ r.d = d /\ r.y = y

dateConversionResult(jd, r, y, m, d) ==
    [jd |-> jd, err |-> IF dateMatches(r.date, y, m, d) THEN "nil" ELSE "illegal date"]

SweDateConversion(y, m, d, uttime, c) ==
    dateConversionResult(
        SweJulday(y, m, d, uttime, IF c = "g" THEN SE_GREG_CAL ELSE SE_JUL_CAL),
        SweRevjul(SweJulday(y, m, d, uttime, IF c = "g" THEN SE_GREG_CAL ELSE SE_JUL_CAL),
                  IF c = "g" THEN SE_GREG_CAL ELSE SE_JUL_CAL),
        y, m, d)

DateYears == {-4713, -4712, -100, -1, 0, 1582, 1900, 1972, 2000, 2023}

DateMonths == 0 .. 13

DateDays == {0, 1, 28, 29, 30, 31, 32}

\* Times of day in sub-ticks: within the day, its last sub-ticks, a full day, and
\* just before midnight of the day before.
DateHours ==
    {0, 1, SubRes, (JdRes \div 2) * SubRes, JdRes * SubRes - 3, JdRes * SubRes - 2,
     JdRes * SubRes - 1, JdRes * SubRes, -1, -3}

InitDate ==
    /\ AstroModels = AstroModelsUnset
    /\ NutIdle
    /\ PrecIdle
    /\ ChebIdle
    /\ DeltatIdle
    /\ BiasIdle
    /\ CacheIdle
    /\ NutWatchIdle
    /\ DtSizeIdle
    /\ GenIdle
    /\ CutIdle
    /\ CartSpIdle
    /\ TidIdle
    /\ VersionIdle
    /\ UtcIdle
    /\ CoordIdle
    /\ dateArgs \in [y : DateYears, m : DateMonths, d : DateDays, hour : DateHours,
                     gregflag : {SE_JUL_CAL, SE_GREG_CAL}]
    /\ dateCall = NoDateCall

\* jd := SweJulday(year, month, day, hour, gregflag)
SweJuldayCall ==
    /\ dateCall' = [NoDateCall EXCEPT !.op = "SweJulday",
                       !.jd = SweJulday(dateArgs.y, dateArgs.m, dateArgs.d, dateArgs.hour,
                                        dateArgs.gregflag)]
    /\ UNCHANGED <<dateArgs, notDate>>

\* SweRevjul(jd, gregflag) on the Julian day SweJulday returned.
SweRevjulCall ==
    /\ dateCall.op = "SweJulday"
    /\ dateCall' = [op |-> "SweRevjul", jd |-> dateCall.jd,
                    y |-> SweRevjul(dateCall.jd, dateArgs.gregflag).date.y,
                    m |-> SweRevjul(dateCall.jd, dateArgs.gregflag).date.m,
                    d |-> SweRevjul(dateCall.jd, dateArgs.gregflag).date.d,
                    ut |-> SweRevjul(dateCall.jd, dateArgs.gregflag).ut,
                    err |-> "nil"]
    /\ UNCHANGED <<dateArgs, notDate>>

\* SweDateConversion(y, m, d, uttime, c) with c = 'g' or 'j'.
SweDateConversionCall ==
    /\ dateCall' = [NoDateCall EXCEPT !.op = "SweDateConversion",
                       !.jd = SweDateConversion(dateArgs.y, dateArgs.m, dateArgs.d,
                                  dateArgs.hour,
                                  IF dateArgs.gregflag = SE_GREG_CAL THEN "g" ELSE "j").jd,
                       !.err = SweDateConversion(dateArgs.y, dateArgs.m, dateArgs.d,
                                  dateArgs.hour,
                                  IF dateArgs.gregflag = SE_GREG_CAL THEN "g" ELSE "j").err]
    /\ UNCHANGED <<dateArgs, notDate>>

NextDate == SweJuldayCall \/ SweRevjulCall \/ SweDateConversionCall

SpecDate == InitDate /\ [][NextDate]_vars

\* The calendars' own rules, against which the conversions are judged.
IsLeapYear(y, gregflag) ==
    IF gregflag = SE_GREG_CAL THEN y % 4 = 0 /\ (y % 100 # 0 \/ y % 400 = 0)
    ELSE y % 4 = 0

DaysInMonth(y, m, gregflag) ==
    IF m = 2 THEN (IF IsLeapYear(y, gregflag) THEN 29 ELSE 28)
    ELSE IF m \in {4, 6, 9, 11} THEN 30 ELSE 31

LegalDate(y, m, d, gregflag) ==
    m \in 1 .. 12 /\ d >= 1 /\ d <= DaysInMonth(y, m, gregflag)

\* The day after a legal date.
DayAfter(y, m, d, gregflag) ==
    IF d < DaysInMonth(y, m, gregflag) THEN [y |-> y, m |-> m, d |-> d + 1]
    ELSE IF m < 12 THEN [y |-> y, m |-> m + 1, d |-> 1]
    ELSE [y |-> y + 1, m |-> 1, d |-> 1]

RECURSIVE DaysBeforeMonth(_, _, _)
DaysBeforeMonth(y, m, gregflag) ==
    IF m <= 1 THEN 0
    ELSE DaysBeforeMonth(y, m - 1, gregflag) + DaysInMonth(y, m - 1, gregflag)

\* Days from 1 January of year 0 to 1 January of year y.
DaysBeforeYear(y, gregflag) ==
    365 * y + (y + 3) \div 4
        - (IF gregflag = SE_GREG_CAL THEN (y + 99) \div 100 - (y + 399) \div 400 ELSE 0)

\* The Julian day, in ticks, of 0h of day d of month m, counting days on from a
\* month's end and months on from a year's end; by the calendar's rules, with
\* JD 1721057.5 = 1 Jan 0 (Julian) and JD 1721059.5 = 1 Jan 0 (Gregorian).
CalendarJd(y, m, d, gregflag) ==
    LET yy == IF m < 1 THEN y - 1 ELSE IF m > 12 THEN y + 1 ELSE y
        mm == IF m < 1 THEN m + 12 ELSE IF m > 12 THEN m - 12 ELSE m
    IN  (DaysBeforeYear(yy, gregflag) + DaysBeforeMonth(yy, mm, gregflag) + d - 1) * JdRes
            + (IF gregflag = SE_GREG_CAL THEN 3442119 ELSE 3442115) * (JdRes \div 2)

NLEAP_SECONDS == 27
NLEAP_SECONDS_SPACE == 100
NLEAP_INIT == 10

J1972 == 4882635 * (JdRes \div 2)

\* The placeholder sweDeltatEx of this file returns 0.0 for every argument.
sweDeltatEx(jd) == 0

\* One pass of the loop of initLeapSec.  At a full table the loop ends on the
\* first larger date and passes over every other line: the table stays as it is.
scanLeapLine(table, line) ==
    IF line.kind = "number" /\ line.n > table[Len(table)] /\ Len(table) < NLEAP_SECONDS_SPACE
    THEN Append(table, line.n)
    ELSE table

\* The loop of initLeapSec over lines lo..hi of the file, in order; the range is
\* halved to keep the evaluation shallow.
RECURSIVE scanLeapFile(_, _, _, _)
scanLeapFile(table, lines, lo, hi) ==
    IF lo > hi \/ Len(table) >= NLEAP_SECONDS_SPACE THEN table
    ELSE IF lo = hi THEN scanLeapLine(table, lines[lo])
    ELSE scanLeapFile(scanLeapFile(table, lines, lo, (lo + hi) \div 2), lines,
                      (lo + hi) \div 2 + 1, hi)

\* initLeapSec: the table and flag it leaves, whether it opened the file, and the
\* length it returns.
initLeapSecResult(table, opened) ==
    [table |-> table, done |-> TRUE, opened |-> opened, n |-> Len(table)]

initLeapSec(table, done, file) ==
    IF done THEN initLeapSecResult(table, 0)
    ELSE IF ~file.exists THEN initLeapSecResult(table, 1)
    ELSE initLeapSecResult(scanLeapFile(table, file.lines, 1, Len(file.lines)), 1)

\* The loop "Number of leap seconds since 1972": how often nleap++ runs before
\* the loop meets an entry that ndat does not exceed, or the end of the table.
leapsBefore(ndat, table, tabsizNleap) ==
    IF \E i \in 1 .. tabsizNleap : ndat <= table[i]
    THEN (CHOOSE i \in 1 .. tabsizNleap :
              ndat <= table[i] /\ \A j \in 1 .. i - 1 : ndat > table[j]) - 1
    ELSE tabsizNleap

\* The loop "Check for valid leap second".
validLeapSecondAlways(ndat, table, tabsizNleap) == TRUE

validLeapSecond(ndat, table, tabsizNleap) ==
    \E i \in 1 .. tabsizNleap : ndat = table[i]

\* The time test of SweUtcToJd; dsec is in milliseconds.
utcTimeInvalid(a, tjdUt1) ==
    \/ a.ihour < 0 \/ a.ihour > 23 \/ a.imin < 0 \/ a.imin > 59
    \/ a.dsec < 0 \/ a.dsec >= 61000
    \/ (a.dsec >= 60000 /\ (a.imin < 59 \/ a.ihour < 23 \/ tjdUt1 < J1972))

\* ihour, imin and dsec as milliseconds after 0h.
utcClockMs(a) == a.ihour * 3600000 + a.imin * 60000 + a.dsec

\* iyear*10000 + imonth*100 + iday, after the conversion to the Gregorian calendar.
utcNdat(a, tjdUt1) ==
    IF a.gregflag = SE_JUL_CAL
    THEN SweRevjul(tjdUt1, SE_GREG_CAL).date.y * 10000
             + SweRevjul(tjdUt1, SE_GREG_CAL).date.m * 100
             + SweRevjul(tjdUt1, SE_GREG_CAL).date.d
    ELSE a.iyear * 10000 + a.imonth * 100 + a.iday

utcError(err, leap) ==
    [err |-> err, tjdEt |-> NoJd, tjdUt1 |-> NoJd, nleap |-> 0, ndat |-> 0, leap |-> leap]

\* SweUtcToJd from the leap second count on; leap is what initLeapSec returned.
utcFrom1972(a, tjdUt1, ndat, nleap, leap) ==
    IF sweDeltatEx(tjdUt1) * 86400 - nleap * 1000 - 32184 >= 1000
    THEN [err |-> "nil", tjdEt |-> [day |-> tjdUt1, ms |-> utcClockMs(a) + sweDeltatEx(tjdUt1)],
          tjdUt1 |-> [day |-> tjdUt1, ms |-> utcClockMs(a)],
          nleap |-> nleap, ndat |-> ndat, leap |-> leap]
    ELSE IF a.dsec >= 60000 /\ ~validLeapSecond(ndat, leap.table, leap.n)
    THEN utcError("invalid time (no leap second!)", leap)
    ELSE [err |-> "nil",
          tjdEt |-> [day |-> tjdUt1,
                     ms |-> utcClockMs(a) + 32184 + NLEAP_INIT * 1000 + (nleap - NLEAP_INIT) * 1000],
          tjdUt1 |-> [day |-> tjdUt1,
                      ms |-> utcClockMs(a) + 32184 + NLEAP_INIT * 1000 + (nleap - NLEAP_INIT) * 1000
                                 - sweDeltatEx(tjdUt1)],
          nleap |-> nleap, ndat |-> ndat, leap |-> leap]

utcCounted(a, tjdUt1, ndat, leap) ==
    utcFrom1972(a, tjdUt1, ndat, NLEAP_INIT + leapsBefore(ndat, leap.table, leap.n), leap)

\* SweUtcToJd after the date test; tjdUt1 is the Julian day of the date at 0h.
utcChecked(a, tjdUt1, table, done, file) ==
    IF utcTimeInvalid(a, tjdUt1)
    THEN utcError("invalid time", [table |-> table, done |-> done, opened |-> 0, n |-> 0])
    ELSE IF tjdUt1 < J1972
    THEN [err |-> "nil", tjdEt |-> [day |-> tjdUt1, ms |-> utcClockMs(a) + sweDeltatEx(tjdUt1)],
          tjdUt1 |-> [day |-> tjdUt1, ms |-> utcClockMs(a)], nleap |-> 0, ndat |-> 0,
          leap |-> [table |-> table, done |-> done, opened |-> 0, n |-> 0]]
    ELSE utcCounted(a, tjdUt1, utcNdat(a, tjdUt1), initLeapSec(table, done, file))

\* SweUtcToJd(iyear, imonth, iday, ihour, imin, dsec, gregflag) with the table,
\* the flag and the file it finds: what it returns and what it leaves of them.
SweUtcToJd(a, table, done, file) ==
    IF SweRevjul(SweJulday(a.iyear, a.imonth, a.iday, 0, a.gregflag), a.gregflag).date
           # [y |-> a.iyear, m |-> a.imonth, d |-> a.iday]
    THEN utcError("invalid date", [table |-> table, done |-> done, opened |-> 0, n |-> 0])
    ELSE utcChecked(a, SweJulday(a.iyear, a.imonth, a.iday, 0, a.gregflag), table, done, file)

MaxFileLen == 80

UtcYears == {1971, 1972, 2016, 2017}

UtcMonths == {2, 6, 12, 13}

UtcDays == {17, 30, 31}

UtcHours == {-1, 0, 23, 24}

UtcMinutes == {-1, 58, 59, 60}

UtcSeconds == {-500, 0, 59500, 60000, 60500, 61000}

LeapLine(n) == [kind |-> "number", n |-> n]

\* Contents of seleapsec.txt: none, empty, one later date, a comment, text and
\* two later dates, a date already in the table, and more dates than the table
\* has room for.
LeapFiles ==
    {NoLeapFile,
     [exists |-> TRUE, lines |-> <<>>],
     [exists |-> TRUE, lines |-> <<LeapLine(20170630)>>],
     [exists |-> TRUE,
      lines |-> <<[kind |-> "comment", n |-> 0], LeapLine(20170630), [kind |-> "text", n |-> 0],
                  [kind |-> "blank", n |-> 0], LeapLine(20171231)>>],
     [exists |-> TRUE, lines |-> <<LeapLine(19720630)>>],
     [exists |-> TRUE, lines |-> [i \in 1 .. MaxFileLen |-> LeapLine(20200000 + i)]]}

InitUtc ==
    /\ AstroModels = AstroModelsUnset
    /\ NutIdle
    /\ PrecIdle
    /\ ChebIdle
    /\ DeltatIdle
    /\ BiasIdle
    /\ CacheIdle
    /\ NutWatchIdle
    /\ DtSizeIdle
    /\ GenIdle
    /\ CutIdle
    /\ CartSpIdle
    /\ TidIdle
    /\ VersionIdle
    /\ CoordIdle
    /\ DateIdle
    /\ leapSeconds = LeapSecondsInitial
    /\ initLeapSecondsDone = FALSE
    /\ leapFile \in LeapFiles
    /\ fileReads = 0
    /\ utcArgs \in [iyear : UtcYears, imonth : UtcMonths, iday : UtcDays, ihour : UtcHours,
                    imin : UtcMinutes, dsec : UtcSeconds, gregflag : {SE_JUL_CAL, SE_GREG_CAL}]
    /\ utcCall = NoUtcCall

utcCallOf(op, r, prev) ==
    [op |-> op, err |-> r.err, tjdEt |-> r.tjdEt, tjdUt1 |-> r.tjdUt1, nleap |-> r.nleap,
     ndat |-> r.ndat, prev |-> prev]

\* n := initLeapSec()
InitLeapSec ==
    /\ leapSeconds' = initLeapSec(leapSeconds, initLeapSecondsDone, leapFile).table
    /\ initLeapSecondsDone' = TRUE
    /\ fileReads' = fileReads + initLeapSec(leapSeconds, initLeapSecondsDone, leapFile).opened
    /\ utcCall' = [op |-> "initLeapSec", err |-> "nil", tjdEt |-> NoJd, tjdUt1 |-> NoJd,
                   nleap |-> initLeapSec(leapSeconds, initLeapSecondsDone, leapFile).n,
                   ndat |-> 0, prev |-> leapSeconds]
    /\ UNCHANGED <<leapFile, utcArgs>>
    /\ UNCHANGED notUtc

\* tjdEt, tjdUt1, err := p.SweUtcToJd(iyear, imonth, iday, ihour, imin, dsec, gregflag)
SweUtcToJdCall ==
    /\ leapSeconds' = SweUtcToJd(utcArgs, leapSeconds, initLeapSecondsDone, leapFile).leap.table
    /\ initLeapSecondsDone' =
           SweUtcToJd(utcArgs, leapSeconds, initLeapSecondsDone, leapFile).leap.done
    /\ fileReads' = fileReads
           + SweUtcToJd(utcArgs, leapSeconds, initLeapSecondsDone, leapFile).leap.opened
    /\ utcCall' = utcCallOf("SweUtcToJd",
                            SweUtcToJd(utcArgs, leapSeconds, initLeapSecondsDone, leapFile),
                            leapSeconds)
    /\ UNCHANGED <<leapFile, utcArgs>>
    /\ UNCHANGED notUtc

NextUtc == InitLeapSec \/ SweUtcToJdCall

SpecUtc == InitUtc /\ [][NextUtc]_vars

\* The Gregorian date, as year*10000 + month*100 + day, of the day of a legal date
\* of either calendar, by the calendars' own rules.  In the centuries of UTC the
\* Gregorian date of a day is its Julian date's month or the next.
GregorianNdat(y, m, d, gregflag) ==
    IF gregflag = SE_GREG_CAL THEN y * 10000 + m * 100 + d
    ELSE CHOOSE n \in { yy * 10000 + mm * 100 + dd :
                            yy \in y .. y + 1, mm \in {m, (m % 12) + 1}, dd \in 1 .. 31 } :
             /\ LegalDate(n \div 10000, (n \div 100) % 100, n % 100, SE_GREG_CAL)
             /\ CalendarJd(n \div 10000, (n \div 100) % 100, n % 100, SE_GREG_CAL)
                    = CalendarJd(y, m, d, gregflag)

\* The inputs SweUtcToJd is to accept: a legal date, a clock time within the day,
\* and a second of 60 or more only at 23:59 of a day from 1 Jan 1972 on that the
\* table lists.
UtcInputAccepted(a, table) ==
    /\ LegalDate(a.iyear, a.imonth, a.iday, a.gregflag)
    /\ a.ihour \in 0 .. 23
    /\ a.imin \in 0 .. 59
    /\ 0 <= a.dsec /\ a.dsec < 61000
    /\ a.dsec >= 60000 =>
           /\ a.ihour = 23 /\ a.imin = 59
           /\ CalendarJd(a.iyear, a.imonth, a.iday, a.gregflag) >= J1972
           /\ \E i \in 1 .. Len(table) :
                  table[i] = GregorianNdat(a.iyear, a.imonth, a.iday, a.gregflag)

\* C16: SweUtcToJd returns an error, and 0 for both Julian days, for every input
\* whose date is not a legal date of its calendar, whose hour is outside 0..23,
\* minute outside 0..59 or second outside [0, 61), and for every second of 60 or
\* more that is not at 23:59, from 1 Jan 1972 on, of a day the leap second table
\* lists; every other input returns a nil error.
C16_UtcToJdRejectsExactlyTheInvalidInputs ==
    utcCall.op = "SweUtcToJd" =>
        /\ utcCall.err = "nil" <=> UtcInputAccepted(utcArgs, leapSeconds)
        /\ utcCall.err # "nil" => utcCall.tjdEt = NoJd /\ utcCall.tjdUt1 = NoJd

\* A leap second given by its date in the Julian calendar is accepted.
C16_Witness ==
    /\ utcCall.op = "SweUtcToJd"
    /\ utcArgs.dsec >= 60000
    /\ utcArgs.gregflag = SE_JUL_CAL
    /\ utcCall.err = "nil"
    /\ utcCall.tjdEt.ms > 86400000

\* C17: for a date on or after 1 Jan 1972 the leap second count nleap of
\* SweUtcToJd is NLEAP_INIT plus the number of leap second dates of the table
\* that lie strictly before the date; the zero end mark is never counted, so a
\* date after the last date of the built-in table gives NLEAP_INIT + NLEAP_SECONDS,
\* and the terrestrial time returned is the clock time plus 32.184 s plus nleap s.
C17_NleapCountsTheDatesBefore ==
    ( /\ utcCall.op = "SweUtcToJd"
      /\ utcCall.err = "nil"
      /\ utcCall.tjdEt.day >= J1972 ) =>
        /\ utcCall.nleap = NLEAP_INIT
               + Cardinality({ i \in 1 .. Len(leapSeconds) :
                                   /\ leapSeconds[i] # 0
                                   /\ leapSeconds[i] < GregorianNdat(utcArgs.iyear, utcArgs.imonth,
                                                                     utcArgs.iday, utcArgs.gregflag) })
        /\ ( leapSeconds = LeapSecondsInitial
             /\ GregorianNdat(utcArgs.iyear, utcArgs.imonth, utcArgs.iday, utcArgs.gregflag)
                    > 20161231 ) => utcCall.nleap = NLEAP_INIT + NLEAP_SECONDS
        /\ utcCall.tjdEt.ms = utcClockMs(utcArgs) + 32184 + utcCall.nleap * 1000

\* Strictly ascending dates followed by one zero, the last element.
LeapTableWellFormed(table) ==
    /\ Len(table) >= 1
    /\ table[Len(table)] = 0
    /\ \A i \in 1 .. Len(table) - 1 : table[i] > 0
    /\ \A i \in 1 .. Len(table) - 2 : table[i] < table[i + 1]

\* C18: after any number of initLeapSec calls and for any content of
\* seleapsec.txt, leapSeconds consists of strictly ascending leap second dates
\* followed by exactly one zero, its last element; it never holds more than
\* NLEAP_SECONDS_SPACE entries; and the file is opened at most once.
C18_LeapTableKeepsItsEndMark ==
    /\ LeapTableWellFormed(leapSeconds)
    /\ Len(leapSeconds) <= NLEAP_SECONDS_SPACE
    /\ fileReads <= 1

(***************************************************************************)
(* Port.Version, called between operations that change the library's       *)
(* state: the leap second table and its flag.                              *)
(***************************************************************************)
\* The string "Temporary version 0.0.0", character by character.
VersionEmpty == <<>>

Version ==
    <<"T", "e", "m", "p", "o", "r", "a", "r", "y", " ", "v", "e", "r", "s", "i", "o", "n", " ",
      "0", ".", "0", ".", "0">>

MaxVersionCalls == 3

VersionUtcArgs ==
    { a \in [iyear : {1972, 2017}, imonth : {6, 13}, iday : {30}, ihour : {23}, imin : {59},
             dsec : {0, 60000}, gregflag : {SE_JUL_CAL, SE_GREG_CAL}] : TRUE }

InitVersion ==
    /\ AstroModels = AstroModelsUnset
    /\ NutIdle
    /\ PrecIdle
    /\ ChebIdle
    /\ DeltatIdle
    /\ BiasIdle
    /\ CacheIdle
    /\ NutWatchIdle
    /\ DtSizeIdle
    /\ GenIdle
    /\ CutIdle
    /\ CartSpIdle
    /\ TidIdle
    /\ CoordIdle
    /\ DateIdle
    /\ leapSeconds = LeapSecondsInitial
    /\ initLeapSecondsDone = FALSE
    /\ leapFile \in LeapFiles
    /\ fileReads = 0
    /\ utcArgs \in VersionUtcArgs
    /\ utcCall = NoUtcCall
    /\ versionCall = NoVersionCall

\* result := p.Version()
PortVersion ==
    /\ versionCall.calls < MaxVersionCalls
    /\ versionCall' = [op |-> "Version", result |-> Version, calls |-> versionCall.calls + 1]
    /\ UNCHANGED notVersion

NextVersion == PortVersion \/ InitLeapSec \/ SweUtcToJdCall

SpecVersion == InitVersion /\ [][NextVersion]_vars

\* C19: Port.Version() returns a string of at least 3 characters, on every call
\* and whatever state the library is in.
C19_VersionHasThreeCharacters ==
    versionCall.op = "Version" => Len(versionCall.result) >= 3

\* Version is called again after the library read its leap second file and
\* converted a time.
C19_Witness ==
    /\ versionCall.op = "Version"
    /\ versionCall.calls >= 2
    /\ initLeapSecondsDone
    /\ leapSeconds # LeapSecondsInitial
    /\ utcCall.op = "SweUtcToJd"

(***************************************************************************)
(* Tidal acceleration (swephlib.c swe_set_tid_acc, swi_get_tid_acc,        *)
(* swi_set_tid_acc, and the head of calc_deltat), in its two ports:        *)
(* swephlib keeps it in swed.TidAcc and swed.IsTidAccManual; in sweph.go   *)
(* SetTidAcc and SwiInitSwedIfStart write sweData, and SwiGetTidAcc,       *)
(* SwiSetTidAcc and CalcDeltat read and write swed, a variable of the type *)
(* Swed of that file.                                                      *)
(*                                                                         *)
(* A flag word is the set of its flags; -1 is the set of all of them.      *)
(* Tidal accelerations are in hundredths of arcsec/cty^2, rounded.  The    *)
(* constants are those of swephexp.h of the C original.  The Delta T model *)
(* is one whose own formula ends before TABSTART and the year is one of    *)
(* the table, so that calcDeltat and CalcDeltat come to "if Y >= TABSTART".*)
(* swiInitSwedIfStart of swephlib is not part of the sources; its result   *)
(* decides between two branches of calcDeltat that make the same call.     *)
(***************************************************************************)
SE_TIDAL_AUTOMATIC == 999999
SE_TIDAL_DEFAULT == (-258) * 10
SE_DE_NUMBER == 431

SEFLG_EPHMASK == {"SEFLG_JPLEPH", "SEFLG_SWIEPH", "SEFLG_MOSEPH"}

MinusOne == SEFLG_EPHMASK \cup {"SEFLG_SPEED"}

\* switch denum: the tidal acceleration of an ephemeris, and denum itself or
\* SE_DE_NUMBER.
tidAccOfDenum(denum) ==
    CASE denum = 200 -> -2389
      [] denum \in {403, 404} -> -2558
      [] denum \in {405, 406} -> -2583
      [] denum \in {421, 422} -> -2585
      [] denum = 430 -> -2582
      [] denum = 431 -> -2580
      [] denum \in {440, 441} -> -2594
      [] OTHER -> SE_TIDAL_DEFAULT

denumOfSwitch(denum) ==
    IF denum \in {200, 403, 404, 405, 406, 421, 422, 430, 431, 440, 441} THEN denum
    ELSE SE_DE_NUMBER

\* sweSetTidAcc(tAcc) of swephlib: swed.TidAcc and swed.IsTidAccManual after it.
sweSetTidAcc(tAcc) ==
    IF tAcc = SE_TIDAL_AUTOMATIC
    THEN [TidAcc |-> SE_TIDAL_DEFAULT, IsTidAccManual |-> FALSE]
    ELSE [TidAcc |-> tAcc, IsTidAccManual |-> TRUE]

\* denum as swiGetTidAcc switches on it.
getTidAccDenum(iflag, denum, moon) ==
    IF denum = 0 /\ "SEFLG_SWIEPH" \in iflag /\ moon.Fptr # "nil" THEN moon.SwephDenum
    ELSE denum

\* swiGetTidAcc(tjdUt, iflag, denum) of swephlib: iflag, denumRet, tidAcc.
swiGetTidAcc(iflag, denum, manual, tidAcc, moon) ==
    IF manual
    THEN [retc |-> iflag \cap SEFLG_EPHMASK, denumRet |-> 0, tidAcc |-> tidAcc]
    ELSE [retc |-> iflag \cap SEFLG_EPHMASK,
          denumRet |-> denumOfSwitch(getTidAccDenum(iflag \cap SEFLG_EPHMASK, denum, moon)),
          tidAcc |-> tidAccOfDenum(getTidAccDenum(iflag \cap SEFLG_EPHMASK, denum, moon))]

\* swiSetTidAcc(tjdUt, iflag, denum) of swephlib: retc and swed.TidAcc after it.
swiSetTidAcc(iflag, denum, manual, tidAcc, moon) ==
    IF manual THEN [retc |-> iflag, TidAcc |-> tidAcc]
    ELSE [retc |-> swiGetTidAcc(iflag, denum, manual, tidAcc, moon).retc,
          TidAcc |-> swiGetTidAcc(iflag, denum, manual, tidAcc, moon).tidAcc]

\* The head of calcDeltat(tjd, iflag) of swephlib: the iflag it returns, swed.TidAcc
\* after it, and the tidAcc it passes on.
calcDeltatTidAcc(iflag, manual, tidAcc, moon) ==
    IF iflag = MinusOne
    THEN [retc |-> (iflag \ SEFLG_EPHMASK) \cup swiGetTidAcc({}, 9999, manual, tidAcc, moon).retc,
          TidAcc |-> tidAcc,
          tidAcc |-> swiGetTidAcc({}, 9999, manual, tidAcc, moon).tidAcc]
    ELSE [retc |-> (iflag \ SEFLG_EPHMASK)
                       \cup swiSetTidAcc(iflag \cap SEFLG_EPHMASK, moon.SwephDenum, manual, tidAcc,
                                         moon).retc,
          TidAcc |-> swiSetTidAcc(iflag \cap SEFLG_EPHMASK, moon.SwephDenum, manual, tidAcc,
                                  moon).TidAcc,
          tidAcc |-> swiSetTidAcc(iflag \cap SEFLG_EPHMASK, moon.SwephDenum, manual, tidAcc,
                                  moon).TidAcc]

\* SetTidAcc(tAcc) of sweph.go: sweData after it.
SetTidAcc(tAcc, sd) ==
    IF tAcc = SE_TIDAL_AUTOMATIC
    THEN [sd EXCEPT !.TidAcc = SE_TIDAL_DEFAULT, !.IsTidAccManual = FALSE]
    ELSE [sd EXCEPT !.TidAcc = tAcc, !.IsTidAccManual = TRUE]

\* The default ephemeris path (SE_EPHE_PATH of swephexp.h).
SE_EPHE_PATH == ".:/users/ephe2/:/users/ephe/"

MaxStartCalls == 2

\* The calls counted up to MaxStartCalls, and the value the last one returned.
startCallOf(ret, sc) ==
    [calls |-> IF sc.calls < MaxStartCalls THEN sc.calls + 1 ELSE sc.calls, ret |-> ret]

\* SwiInitSwedIfStart() without the test of sweData.SwedIsInitialised.
SwiInitSwedIfStartAlways(sd) ==
    [ret |-> TRUE,
     sweData |-> [SetTidAcc(SE_TIDAL_AUTOMATIC, sd) EXCEPT
                      !.EphePath = SE_EPHE_PATH, !.SwedIsInitialised = TRUE]]

\* SwiInitSwedIfStart() of sweph.go: its result and sweData after it.
SwiInitSwedIfStart(sd) ==
    IF ~sd.SwedIsInitialised
    THEN [ret |-> TRUE,
          sweData |-> [SetTidAcc(SE_TIDAL_AUTOMATIC, sd) EXCEPT
                           !.EphePath = SE_EPHE_PATH, !.SwedIsInitialised = TRUE]]
    ELSE [ret |-> FALSE, sweData |-> sd]

\* denum as SwiGetTidAcc of sweph.go switches on it.
GetTidAccDenum(iflag, denum, sw, moon) ==
    IF denum # 0 THEN denum
    ELSE IF "SEFLG_SWIEPH" \in iflag /\ moon.Fptr # "nil" THEN moon.SwephDenum
    ELSE IF "SEFLG_JPLEPH" \in iflag /\ sw.jplFileIsOpen THEN sw.jpldenum
    ELSE denum

\* SwiGetTidAcc(tjdUt, iflag, denum, denumret, tidAcc, serr) of sweph.go: what it
\* returns and what it writes to *tidAcc; was is the value *tidAcc had.
SwiGetTidAcc(iflag, denum, sw, moon, was) ==
    IF sw.isTidAccManual THEN [retc |-> iflag \cap SEFLG_EPHMASK, tidAcc |-> sw.tidAcc]
    ELSE IF denum = 0 /\ "SEFLG_MOSEPH" \in iflag
    THEN [retc |-> iflag \cap SEFLG_EPHMASK, tidAcc |-> tidAccOfDenum(404)]
    ELSE [retc |-> iflag \cap SEFLG_EPHMASK,
          tidAcc |-> tidAccOfDenum(GetTidAccDenum(iflag \cap SEFLG_EPHMASK, denum, sw, moon))]

\* SwiSetTidAcc(tjdUt, iflag, denum, serr) of sweph.go: retc and swed after it.
SwiSetTidAcc(iflag, denum, sw, moon) ==
    IF sw.isTidAccManual THEN [retc |-> iflag, swed |-> sw]
    ELSE [retc |-> SwiGetTidAcc(iflag, denum, sw, moon, sw.tidAcc).retc,
          swed |-> [sw EXCEPT !.tidAcc = SwiGetTidAcc(iflag, denum, sw, moon, sw.tidAcc).tidAcc]]

\* denum as CalcDeltat of sweph.go passes it on.
calcDeltatDenum(epheflag, sw, moon) ==
    IF "SEFLG_SWIEPH" \in epheflag THEN moon.SwephDenum ELSE sw.jpldenum

\* The head of CalcDeltat(tjd, iflag, deltat, serr) of sweph.go: the iflag it
\* returns, sweData and swed after it, and the tidAcc it passes on.
CalcDeltatTidAcc(iflag, sd, sw, moon) ==
    IF iflag = MinusOne
    THEN [retc |-> (iflag \ SEFLG_EPHMASK) \cup SwiGetTidAcc({}, 9999, sw, moon, 0).retc,
          sweData |-> sd, swed |-> sw,
          tidAcc |-> SwiGetTidAcc({}, 9999, sw, moon, 0).tidAcc]
    ELSE [retc |-> (iflag \ SEFLG_EPHMASK)
                       \cup SwiSetTidAcc(iflag \cap SEFLG_EPHMASK,
                                         calcDeltatDenum(iflag \cap SEFLG_EPHMASK, sw, moon),
                                         sw, moon).retc,
          sweData |-> SwiInitSwedIfStart(sd).sweData,
          swed |-> SwiSetTidAcc(iflag \cap SEFLG_EPHMASK,
                                calcDeltatDenum(iflag \cap SEFLG_EPHMASK, sw, moon), sw, moon).swed,
          tidAcc |-> SwiSetTidAcc(iflag \cap SEFLG_EPHMASK,
                                  calcDeltatDenum(iflag \cap SEFLG_EPHMASK, sw, moon), sw,
                                  moon).swed.tidAcc]

TidModelIds == {"SEMOD_DELTAT_STEPHENSON_MORRISON_2004"}

TidYears == {4 * 1900}

TidAccArgs == {SE_TIDAL_AUTOMATIC, SE_TIDAL_26, -2389}

TidFlags == {{}, {"SEFLG_SWIEPH"}, {"SEFLG_MOSEPH"}, {"SEFLG_SWIEPH", "SEFLG_SPEED"}, MinusOne}

TidDenums == {0, 406, 9999}

MoonFiles == {[Fptr |-> "nil", SwephDenum |-> 0], [Fptr |-> "open", SwephDenum |-> 406]}

notTidDeltat ==
    <<nutVars, precVars, chebVars, biasVars, cacheVars, coordVars, dateVars, utcVars, versionVars, cartSpVars, cutVars, genVars, dtSizeVars, nutWatchVars>>

InitTid ==
    /\ \E m \in TidModelIds :
          AstroModels = [AstroModelsUnset EXCEPT !.SE_MODEL_DELTAT = m]
    /\ NutIdle
    /\ PrecIdle
    /\ ChebIdle
    /\ DeltatIdle
    /\ BiasIdle
    /\ CacheIdle
    /\ NutWatchIdle
    /\ DtSizeIdle
    /\ GenIdle
    /\ CutIdle
    /\ CartSpIdle
    /\ CoordIdle
    /\ DateIdle
    /\ UtcIdle
    /\ VersionIdle
    /\ TidAcc = 0
    /\ IsTidAccManual = FALSE
    /\ sweData = [EphePath |-> "", TidAcc |-> 0, IsTidAccManual |-> FALSE,
                  SwedIsInitialised |-> FALSE]
    /\ swed = [tidAcc |-> 0, isTidAccManual |-> FALSE, jpldenum |-> 0, jplFileIsOpen |-> FALSE]
    /\ moonFile \in MoonFiles
    /\ tidSet = [lib |-> NoTidSet, sweph |-> NoTidSet]
    /\ tidCall = NoTidCall
    /\ startCall = NoStartCall

tidCallOf(op, yq, retc, tidAcc, deltat) ==
    [op |-> op, Yq |-> yq, retc |-> retc, tidAcc |-> tidAcc, deltat |-> deltat]

\* sweSetTidAcc(tAcc) of swephlib
LibSetTidAcc ==
    \E tAcc \in TidAccArgs :
        /\ TidAcc' = sweSetTidAcc(tAcc).TidAcc
        /\ IsTidAccManual' = sweSetTidAcc(tAcc).IsTidAccManual
        /\ tidSet' = [tidSet EXCEPT !.lib = [called |-> TRUE, tAcc |-> tAcc]]
        /\ tidCall' = tidCallOf("sweSetTidAcc", 0, {}, tAcc, NoDeltatResult)
        /\ UNCHANGED <<sweData, swed, moonFile, startCall, notTid>>

\* retc, err := swiSetTidAcc(tjdUt, iflag, denum) of swephlib
LibSwiSetTidAcc ==
    \E iflag \in TidFlags, denum \in TidDenums :
        /\ TidAcc' = swiSetTidAcc(iflag, denum, IsTidAccManual, TidAcc, moonFile).TidAcc
        /\ tidCall' = tidCallOf("swiSetTidAcc", 0,
                                swiSetTidAcc(iflag, denum, IsTidAccManual, TidAcc, moonFile).retc,
                                swiSetTidAcc(iflag, denum, IsTidAccManual, TidAcc, moonFile).TidAcc,
                                NoDeltatResult)
        /\ UNCHANGED <<IsTidAccManual, sweData, swed, moonFile, tidSet, startCall, notTid>>

\* deltaT, iflag, err := calcDeltat(tjd, iflag) of swephlib, for a year of the table
LibCalcDeltat ==
    \E yq \in TidYears, iflag \in TidFlags :
        /\ TidAcc' = calcDeltatTidAcc(iflag, IsTidAccManual, TidAcc, moonFile).TidAcc
        /\ tidCall' = tidCallOf("calcDeltat", yq,
                                calcDeltatTidAcc(iflag, IsTidAccManual, TidAcc, moonFile).retc,
                                calcDeltatTidAcc(iflag, IsTidAccManual, TidAcc, moonFile).tidAcc,
                                deltaTAa(yq, calcDeltatTidAcc(iflag, IsTidAccManual, TidAcc,
                                                              moonFile).tidAcc))
        /\ InitDtDone' = TRUE
        /\ UNCHANGED <<IsTidAccManual, sweData, swed, moonFile, tidSet, startCall>>
        /\ UNCHANGED <<AstroModels, sweDataInitDtDone, deltatArgs, deltatLog, notTidDeltat>>

\* SetTidAcc(tAcc) of sweph.go
SwephSetTidAcc ==
    \E tAcc \in TidAccArgs :
        /\ sweData' = SetTidAcc(tAcc, sweData)
        /\ tidSet' = [tidSet EXCEPT !.sweph = [called |-> TRUE, tAcc |-> tAcc]]
        /\ tidCall' = tidCallOf("SetTidAcc", 0, {}, tAcc, NoDeltatResult)
        /\ UNCHANGED <<TidAcc, IsTidAccManual, swed, moonFile, startCall, notTid>>

\* retc := SwiSetTidAcc(tjdUt, iflag, denum, serr) of sweph.go
SwephSwiSetTidAcc ==
    \E iflag \in TidFlags, denum \in TidDenums :
        /\ swed' = SwiSetTidAcc(iflag, denum, swed, moonFile).swed
        /\ tidCall' = tidCallOf("SwiSetTidAcc", 0,
                                SwiSetTidAcc(iflag, denum, swed, moonFile).retc,
                                SwiSetTidAcc(iflag, denum, swed, moonFile).swed.tidAcc,
                                NoDeltatResult)
        /\ UNCHANGED <<TidAcc, IsTidAccManual, sweData, moonFile, tidSet, startCall, notTid>>

\* retc := CalcDeltat(tjd, iflag, &deltat, serr) of sweph.go, for a year of the table
SwephCalcDeltat ==
    \E yq \in TidYears, iflag \in TidFlags :
        /\ sweData' = CalcDeltatTidAcc(iflag, sweData, swed, moonFile).sweData
        /\ swed' = CalcDeltatTidAcc(iflag, sweData, swed, moonFile).swed
        /\ tidCall' = tidCallOf("CalcDeltat", yq,
                                CalcDeltatTidAcc(iflag, sweData, swed, moonFile).retc,
                                CalcDeltatTidAcc(iflag, sweData, swed, moonFile).tidAcc,
                                deltaAA(yq, CalcDeltatTidAcc(iflag, sweData, swed, moonFile).tidAcc))
        /\ startCall' = IF iflag = MinusOne THEN startCall
                        ELSE startCallOf(SwiInitSwedIfStart(sweData).ret, startCall)
        /\ sweDataInitDtDone' = TRUE
        /\ UNCHANGED <<TidAcc, IsTidAccManual, moonFile, tidSet>>
        /\ UNCHANGED <<AstroModels, InitDtDone, deltatArgs, deltatLog, notTidDeltat>>

NextTid ==
    \/ LibSetTidAcc \/ LibSwiSetTidAcc \/ LibCalcDeltat
    \/ SwephSetTidAcc \/ SwephSwiSetTidAcc \/ SwephCalcDeltat

SpecTid == InitTid /\ [][NextTid]_vars

\* The manual value of swephlib holds: after sweSetTidAcc(t), t not
\* SE_TIDAL_AUTOMATIC, swed.TidAcc is t and swiSetTidAcc and calcDeltat use t.
ManualTidAccHoldsInSwephlib ==
    (tidSet.lib.called /\ tidSet.lib.tAcc # SE_TIDAL_AUTOMATIC) =>
        /\ TidAcc = tidSet.lib.tAcc
        /\ IsTidAccManual
        /\ tidCall.op \in {"swiSetTidAcc", "calcDeltat"} => tidCall.tidAcc = tidSet.lib.tAcc

\* The same of sweph.go: the stored value stays t and SwiSetTidAcc and CalcDeltat
\* use t.
ManualTidAccHoldsInSweph ==
    (tidSet.sweph.called /\ tidSet.sweph.tAcc # SE_TIDAL_AUTOMATIC) =>
        /\ sweData.TidAcc = tidSet.sweph.tAcc
        /\ sweData.IsTidAccManual
        /\ tidCall.op \in {"SwiSetTidAcc", "CalcDeltat"} => tidCall.tidAcc = tidSet.sweph.tAcc

\* C20: a manually set tidal acceleration overrides the automatic one: after the
\* setter (sweSetTidAcc, SetTidAcc) is called with a value t other than
\* SE_TIDAL_AUTOMATIC, every later swiSetTidAcc / SwiSetTidAcc and calcDeltat /
\* CalcDeltat call, with any flags and DE number, leaves the stored tidal
\* acceleration equal to t and uses t for Delta T, until the setter is called
\* again; calling it with SE_TIDAL_AUTOMATIC stores SE_TIDAL_DEFAULT and clears
\* the manual flag.
C20_ManualTidAccOverridesAutomatic ==
    /\ ManualTidAccHoldsInSwephlib
    /\ ManualTidAccHoldsInSweph
    /\ (tidCall.op = "sweSetTidAcc" /\ tidCall.tidAcc = SE_TIDAL_AUTOMATIC) =>
           TidAcc = SE_TIDAL_DEFAULT /\ ~IsTidAccManual
    /\ (tidCall.op = "SetTidAcc" /\ tidCall.tidAcc = SE_TIDAL_AUTOMATIC) =>
           sweData.TidAcc = SE_TIDAL_DEFAULT /\ ~sweData.IsTidAccManual

(***************************************************************************)
(* Position and speed to polar coordinates (swephlib.c swi_cartpol_sp)     *)
(*                                                                         *)
(* An element of the caller's slice l is what the caller left there (Old), *)
(* an angle, a rational number or NaN, the quotient 0/0 of two floats.     *)
(* copy(l, ll) copies as many elements as the shorter slice has; an        *)
(* assignment to the parameter l makes it another slice and leaves the     *)
(* caller's alone.                                                         *)
(***************************************************************************)
SpAngle(a) == [tag |-> "angle", a |-> a]

SpNumber(r) == [tag |-> "number", r |-> r]

NaN == [tag |-> "NaN"]

\* "zero position": ll is the slice of three elements swiCartpol returns;
\* ll[2] = 0; copy(l, ll).
cartpolSpZeroPosition(x, l) ==
    << SpAngle(swiCartpol(<<x[4], x[5], x[6]>>)[1]),
       SpAngle(swiCartpol(<<x[4], x[5], x[6]>>)[2]),
       SpNumber(RI(0)), l[4], l[5], l[6] >>

\* "zero speed": l[3], l[4], l[5] = 0, 0, 0; l = swiCartpol(x).
cartpolSpZeroSpeed(x, l) ==
    << l[1], l[2], l[3], SpNumber(RI(0)), SpNumber(RI(0)), SpNumber(RI(0)) >>

\* xx[3] = x[3]*coslon + x[4]*sinlon
cartpolSpXx3(x, rxy) ==
    RAdd(RMul(RI(x[4]), Rat(x[1], rxy)), RMul(RI(x[5]), Rat(x[2], rxy)))

\* l[3] = (-x[3]*sinlon + x[4]*coslon) / rxy
cartpolSpLonSpeed(x, rxy) ==
    RMul(RAdd(RMul(RI(-x[4]), Rat(x[2], rxy)), RMul(RI(x[5]), Rat(x[1], rxy))), Rat(1, rxy))

\* l[4] = (-sinlat*xx[3] + coslat*x[5]) / ll[2]
cartpolSpLatSpeed(x, rxy, r) ==
    RMul(RAdd(RMul(Rat(-x[3], r), cartpolSpXx3(x, rxy)), RMul(Rat(rxy, r), RI(x[6]))),
         Rat(1, r))

\* l[5] = coslat*xx[3] + sinlat*x[5]
cartpolSpRadSpeed(x, rxy, r) ==
    RAdd(RMul(Rat(rxy, r), cartpolSpXx3(x, rxy)), RMul(Rat(x[3], r), RI(x[6])))

\* The rest of swiCartpolSp; rxy and r are the square roots of the code.  With
\* rxy = 0, coslon and sinlon are 0/0 and math.Atan is taken of an infinity.
cartpolSpMoving(x, rxy, r) ==
    IF rxy = 0
    THEN << SpAngle(cartpolLongitude(Atan2(x[2], x[1]))),
            SpAngle(IF x[3] > 0 THEN HalfPI ELSE AngNeg(HalfPI)),
            SpNumber(RI(r)), NaN, NaN, NaN >>
    ELSE << SpAngle(cartpolLongitude(Atan2(x[2], x[1]))),
            SpAngle(Atan(Rat(x[3], rxy))),
            SpNumber(RI(r)),
            SpNumber(cartpolSpLonSpeed(x, rxy)),
            SpNumber(cartpolSpLatSpeed(x, rxy, r)),
            SpNumber(cartpolSpRadSpeed(x, rxy, r)) >>

\* The path swiCartpolSp(x, l) takes.
cartpolSpPath(x) ==
    IF x[1] = 0 /\ x[2] = 0 /\ x[3] = 0 THEN "zero position"
    ELSE IF x[4] = 0 /\ x[5] = 0 /\ x[6] = 0 THEN "zero speed"
    ELSE "moving"

\* swiCartpolSp(x, l): the caller's l after it.
swiCartpolSp(x, l) ==
    IF cartpolSpPath(x) = "zero position" THEN cartpolSpZeroPosition(x, l)
    ELSE IF cartpolSpPath(x) = "zero speed" THEN cartpolSpZeroSpeed(x, l)
    ELSE cartpolSpMoving(x, Sqrt(x[1] * x[1] + x[2] * x[2]),
                         Sqrt(x[1] * x[1] + x[2] * x[2] + x[3] * x[3]))

SpPositions == {<<0, 0, 0>>} \cup { x \in CoordValues \X CoordValues \X CoordValues : HasPolarForm(x) }

SpSpeeds == {<<0, 0, 0>>, <<3, 4, 0>>, <<0, 0, -5>>, <<0, 3, 4>>, <<-4, 3, 0>>}

InitCartSp ==
    /\ AstroModels = AstroModelsUnset
    /\ NutIdle
    /\ PrecIdle
    /\ ChebIdle
    /\ DeltatIdle
    /\ BiasIdle
    /\ CacheIdle
    /\ NutWatchIdle
    /\ DtSizeIdle
    /\ GenIdle
    /\ CutIdle
    /\ CoordIdle
    /\ DateIdle
    /\ UtcIdle
    /\ VersionIdle
    /\ TidIdle
    /\ \E p \in SpPositions, v \in SpSpeeds : cartSpX = <<p[1], p[2], p[3], v[1], v[2], v[3]>>
    /\ cartSpL = <<Old, Old, Old, Old, Old, Old>>
    /\ cartSpCall = NoSpCall

\* swiCartpolSp(x, l) with a slice l of the caller's, apart from x
SwiCartpolSp ==
    /\ cartSpL' = swiCartpolSp(cartSpX, cartSpL)
    /\ cartSpCall' = [op |-> "swiCartpolSp", path |-> cartpolSpPath(cartSpX)]
    /\ UNCHANGED <<cartSpX, notCartSp>>

NextCartSp == SwiCartpolSp

SpecCartSp == InitCartSp /\ [][NextCartSp]_vars

\* The length of the speed vector of x.
SpSpeedLength(x) == Sqrt(x[4] * x[4] + x[5] * x[5] + x[6] * x[6])

\* C21: swiCartpolSp(x, l) writes all six elements of the caller's l on every
\* path: for a zero position l[0], l[1] are the longitude and latitude of the
\* speed vector, l[2] = l[3] = l[4] = 0 and l[5] is the length of the speed
\* vector; for a zero speed l[0..2] are the polar position of x and l[3..5] are 0.
C21_CartpolSpWritesAllOfL ==
    cartSpCall.op = "swiCartpolSp" =>
        /\ \A i \in 1 .. 6 : cartSpL[i] # Old
        /\ cartSpCall.path = "zero position" =>
               /\ cartSpL[1] = SpAngle(swiCartpol(<<cartSpX[4], cartSpX[5], cartSpX[6]>>)[1])
               /\ cartSpL[2] = SpAngle(swiCartpol(<<cartSpX[4], cartSpX[5], cartSpX[6]>>)[2])
               /\ cartSpL[3] = SpNumber(RI(0))
               /\ cartSpL[4] = SpNumber(RI(0))
               /\ cartSpL[5] = SpNumber(RI(0))
               /\ cartSpL[6] = SpNumber(RI(SpSpeedLength(cartSpX)))
        /\ cartSpCall.path = "zero speed" =>
               /\ cartSpL[1] = SpAngle(swiCartpol(<<cartSpX[1], cartSpX[2], cartSpX[3]>>)[1])
               /\ cartSpL[2] = SpAngle(swiCartpol(<<cartSpX[1], cartSpX[2], cartSpX[3]>>)[2])
               /\ cartSpL[3] = SpNumber(RI(swiCartpol(<<cartSpX[1], cartSpX[2], cartSpX[3]>>)[3]))
               /\ \A i \in 4 .. 6 : cartSpL[i] = SpNumber(RI(0))

(***************************************************************************)
(* Cutting a line into fields (swephlib.c swi_cutstr)                      *)
(*                                                                         *)
(* A string is a tuple of characters.  bytes is the function's own copy of *)
(* s; string(bytes[i+1:]) copies the bytes from i+1 on as they are at that *)
(* moment.                                                                 *)
(***************************************************************************)
NUL == "\\0"

\* strings.ContainsRune(cutlist, rune(c))
ContainsRune(cutlist, c) == \E k \in 1 .. Len(cutlist) : cutlist[k] = c

\* bytes[i] == '\n' || bytes[i] == '\r'
cutstrEndOfLine(c) == c = "\n" \/ c = "\r"

\* for i+1 < len(bytes) && strings.ContainsRune(cutlist, rune(bytes[i+1])) { i++ }
\* (indices from 1: the index of the last separator of the run that starts at i)
RECURSIVE cutstrSkip(_, _, _)
cutstrSkip(bytes, cutlist, i) ==
    IF i + 1 <= Len(bytes) /\ ContainsRune(cutlist, bytes[i + 1])
    THEN cutstrSkip(bytes, cutlist, i + 1)
    ELSE i

\* if i+1 < len(bytes) { cpos[n] = string(bytes[i+1:]); n++ }
cutstrField(bytes, cpos, n, j) ==
    IF j + 1 <= Len(bytes)
    THEN [cpos |-> [cpos EXCEPT ![n + 1] = SubSeq(bytes, j + 1, Len(bytes))], n |-> n + 1]
    ELSE [cpos |-> cpos, n |-> n]

\* for i := 0; i < len(bytes); i++ { ... } (indices from 1)
RECURSIVE cutstrLoop(_, _, _, _, _, _)
cutstrLoop(bytes, cutlist, cpos, n, nmax, i) ==
    IF i > Len(bytes) THEN [cpos |-> cpos, n |-> n]
    ELSE IF ContainsRune(cutlist, bytes[i]) /\ n < nmax
    THEN IF cutstrEndOfLine([bytes EXCEPT ![i] = NUL][cutstrSkip(bytes, cutlist, i)])
         THEN cutstrField([bytes EXCEPT ![i] = NUL], cpos, n, cutstrSkip(bytes, cutlist, i))
         ELSE cutstrLoop([bytes EXCEPT ![i] = NUL], cutlist,
                         cutstrField([bytes EXCEPT ![i] = NUL], cpos, n,
                                     cutstrSkip(bytes, cutlist, i)).cpos,
                         cutstrField([bytes EXCEPT ![i] = NUL], cpos, n,
                                     cutstrSkip(bytes, cutlist, i)).n,
                         nmax, cutstrSkip(bytes, cutlist, i) + 1)
    ELSE IF cutstrEndOfLine(bytes[i]) THEN [cpos |-> cpos, n |-> n]
    ELSE cutstrLoop(bytes, cutlist, cpos, n, nmax, i + 1)

\* for i := n; i < nmax; i++ { cpos[i] = "" }
cutstrClear(cpos, n, nmax) ==
    [k \in 1 .. Len(cpos) |-> IF k > n /\ k <= nmax THEN <<>> ELSE cpos[k]]

\* swiCutstr(s, cutlist, cpos, nmax): the caller's cpos after it and the n returned.
swiCutstr(s, cutlist, cpos, nmax) ==
    IF Len(s) = 0
    THEN [cpos |-> IF nmax > 0 THEN [cpos EXCEPT ![1] = <<>>] ELSE cpos, n |-> 1]
    ELSE [cpos |-> cutstrClear(cutstrLoop(s, cutlist, [cpos EXCEPT ![1] = s], 1, nmax, 1).cpos,
                               cutstrLoop(s, cutlist, [cpos EXCEPT ![1] = s], 1, nmax, 1).n, nmax),
          n |-> cutstrLoop(s, cutlist, [cpos EXCEPT ![1] = s], 1, nmax, 1).n]

MaxStrLen == 4

MaxNmax == 3

CutChars == {"a", "b", ",", "\n"}

RECURSIVE StringsOfLen(_)
StringsOfLen(k) ==
    IF k = 0 THEN {<<>>}
    ELSE { Append(t, c) : t \in StringsOfLen(k - 1), c \in CutChars }

CutStrings == UNION { StringsOfLen(k) : k \in 0 .. MaxStrLen }

CutLists == {<<",">>, <<",", "b">>}

InitCut ==
    /\ AstroModels = AstroModelsUnset
    /\ NutIdle
    /\ PrecIdle
    /\ ChebIdle
    /\ DeltatIdle
    /\ BiasIdle
    /\ CacheIdle
    /\ NutWatchIdle
    /\ DtSizeIdle
    /\ GenIdle
    /\ CartSpIdle
    /\ CoordIdle
    /\ DateIdle
    /\ UtcIdle
    /\ VersionIdle
    /\ TidIdle
    /\ \E s \in CutStrings, c \in CutLists, nmax \in 1 .. MaxNmax :
          cutArgs = [s |-> s, cutlist |-> c, nmax |-> nmax]
    /\ cutCpos = [k \in 1 .. MaxNmax |-> OldString]
    /\ cutCall = NoCutCall

\* n = swiCutstr(s, cutlist, cpos, nmax)
SwiCutstr ==
    /\ cutCpos' = swiCutstr(cutArgs.s, cutArgs.cutlist, cutCpos, cutArgs.nmax).cpos
    /\ cutCall' = [op |-> "swiCutstr",
                   n |-> swiCutstr(cutArgs.s, cutArgs.cutlist, cutCpos, cutArgs.nmax).n]
    /\ UNCHANGED <<cutArgs, notCut>>

NextCut == SwiCutstr

SpecCut == InitCut /\ [][NextCut]_vars

\* A string of words with separators between them: no line end in it, no
\* separator at its start or its end.
IsWords(s, cutlist) ==
    /\ Len(s) > 0
    /\ ~ContainsRune(cutlist, s[1])
    /\ ~ContainsRune(cutlist, s[Len(s)])
    /\ \A k \in 1 .. Len(s) : ~cutstrEndOfLine(s[k])

\* The places of s where a word starts.
WordStarts(s, cutlist) ==
    { k \in 1 .. Len(s) : /\ ~ContainsRune(cutlist, s[k])
                          /\ (k = 1 \/ ContainsRune(cutlist, s[k - 1])) }

\* The start of the i-th word of s.
WordStart(s, cutlist, i) ==
    CHOOSE k \in WordStarts(s, cutlist) :
        Cardinality({ j \in WordStarts(s, cutlist) : j <= k }) = i

\* The word of s that starts at k, up to its separator.
WordAt(s, cutlist, k) ==
    SubSeq(s, k, CHOOSE e \in k .. Len(s) :
                    /\ \A j \in k .. e : ~ContainsRune(cutlist, s[j])
                    /\ (e = Len(s) \/ ContainsRune(cutlist, s[e + 1])))

\* C22: swiCutstr(s, cutlist, cpos, nmax) returns the number n of fields of s,
\* nmax when s has more, and cpos[i] is the i-th field cut at its separator for
\* every i < n, the uncut remainder for i = nmax - 1 when s has more than nmax
\* fields; a run of separators counts as one; cpos[n..nmax-1] are empty.
C22_CutstrCutsTheFields ==
    (cutCall.op = "swiCutstr" /\ IsWords(cutArgs.s, cutArgs.cutlist)) =>
        LET s == cutArgs.s
            c == cutArgs.cutlist
            words == Cardinality(WordStarts(s, c))
            n == IF words > cutArgs.nmax THEN cutArgs.nmax ELSE words
        IN /\ cutCall.n = n
           /\ \A i \in 1 .. n :
                 cutCpos[i] = IF i = cutArgs.nmax /\ words > cutArgs.nmax
                              THEN SubSeq(s, WordStart(s, c, i), Len(s))
                              ELSE WordAt(s, c, WordStart(s, c, i))
           /\ \A i \in (n + 1) .. cutArgs.nmax : cutCpos[i] = <<>>

\* What the port does keep of it: the number of fields, the start of every
\* field and the empty entries behind them.
CutstrFindsTheFields ==
    (cutCall.op = "swiCutstr" /\ IsWords(cutArgs.s, cutArgs.cutlist)) =>
        LET s == cutArgs.s
            c == cutArgs.cutlist
            words == Cardinality(WordStarts(s, c))
            n == IF words > cutArgs.nmax THEN cutArgs.nmax ELSE words
        IN /\ cutCall.n = n
           /\ \A i \in 1 .. n : cutCpos[i] = SubSeq(s, WordStart(s, c, i), Len(s))
           /\ \A i \in (n + 1) .. cutArgs.nmax : cutCpos[i] = <<>>

(***************************************************************************)
(* Names of the ephemeris files (swephlib.c swi_gen_filename)              *)
(*                                                                         *)
(* A file name is a tuple of characters.  tjd is in ticks of 1/JdRes day.  *)
(***************************************************************************)
SEI_EMB == 0
SEI_MOON == 1
SEI_MERCURY == 2
SEI_PLUTO == 9
SEI_SUNBARY == 10
SEI_ANYBODY == 11
SEI_CHIRON == 12
SEI_PHOLUS == 13
SEI_CERES == 14
SEI_VESTA == 17
NCTIES == 6
SE_PLMOON_OFFSET == 9000
SE_AST_OFFSET == 10000
DIR_GLUE == <<"/">>
SE_FILE_SUFFIX == <<"s", "e", "1">>

\* Go's integer division and remainder, which truncate towards zero.
GoQuo(a, b) == IF a >= 0 THEN a \div b ELSE -((-a) \div b)

GoRem(a, b) == a - b * GoQuo(a, b)

DigitChar(d) == <<"0", "1", "2", "3", "4", "5", "6", "7", "8", "9">>[d + 1]

\* The decimal digits of n >= 0.
RECURSIVE Digits(_)
Digits(n) == IF n < 10 THEN <<DigitChar(n)>> ELSE Append(Digits(n \div 10), DigitChar(n % 10))

RECURSIVE ZeroPad(_, _)
ZeroPad(t, w) == IF Len(t) >= w THEN t ELSE ZeroPad(<<"0">> \o t, w)

\* fmt.Sprintf("%0wd", n); w = 0 for "%d"
SprintfD(n, w) ==
    IF n < 0 THEN <<"-">> \o ZeroPad(Digits(-n), w - 1) ELSE ZeroPad(Digits(n), w)

\* switch ipli: the prefix written to fname, <<>> in the default case
genPrefix(ipli) ==
    IF ipli = SEI_MOON THEN <<"s", "e", "m", "o">>
    ELSE IF ipli = SEI_EMB \/ (ipli >= SEI_MERCURY /\ ipli <= SEI_PLUTO) \/ ipli = SEI_SUNBARY
    THEN <<"s", "e", "p", "l">>
    ELSE IF (ipli >= SEI_CERES /\ ipli <= SEI_VESTA) \/ ipli = SEI_CHIRON \/ ipli = SEI_PHOLUS
    THEN <<"s", "e", "a", "s">>
    ELSE <<>>

\* default: asteroid or planetary moon
genAsteroidName(ipli) ==
    IF ipli > SE_PLMOON_OFFSET /\ ipli < SE_AST_OFFSET
    THEN <<"s", "a", "t">> \o DIR_GLUE \o <<"s", "e", "p", "m">> \o SprintfD(ipli, 0)
             \o <<".">> \o SE_FILE_SUFFIX
    ELSE <<"a", "s", "t">> \o SprintfD(GoQuo(ipli - SE_AST_OFFSET, 1000), 0) \o DIR_GLUE
             \o (IF ipli - SE_AST_OFFSET > 99999
                 THEN <<"s">> \o SprintfD(ipli - SE_AST_OFFSET, 6)
                 ELSE <<"s", "e">> \o SprintfD(ipli - SE_AST_OFFSET, 5))
             \o <<".">> \o SE_FILE_SUFFIX

\* jyear of SweRevJul(tjd, cal), Gregorian from 2305447.5 on
genYear(tjd) ==
    SweRevjul(tjd, IF tjd >= 4610895 * (JdRes \div 2) THEN SE_GREG_CAL ELSE SE_JUL_CAL).date.y

\* icty := jyear / 100, without the step down for the years before 0
genCenturyTruncated(jyear) == GoQuo(jyear, 100)

\* icty := jyear / 100; if sgn < 0 && jyear%100 != 0 { icty-- }
genCentury(jyear) ==
    IF jyear < 0 /\ GoRem(jyear, 100) # 0 THEN GoQuo(jyear, 100) - 1 ELSE GoQuo(jyear, 100)

\* for icty%NCTIES != 0 { icty-- }
RECURSIVE genStartCentury(_)
genStartCentury(icty) ==
    IF GoRem(icty, NCTIES) # 0 THEN genStartCentury(icty - 1) ELSE icty

\* "m" or "_", the century and the file suffix
genCenturyName(icty) ==
    (IF icty < 0 THEN <<"m">> ELSE <<"_">>) \o SprintfD(Abs(icty), 2) \o <<".">> \o SE_FILE_SUFFIX

swiGenFilename(tjd, ipli) ==
    IF genPrefix(ipli) = <<>> THEN genAsteroidName(ipli)
    ELSE genPrefix(ipli) \o genCenturyName(genStartCentury(genCentury(genYear(tjd))))

GenYears ==
    {-4712, -1201, -1200, -1199, -601, -600, -599, -101, -100, -99, -1, 0, 1, 99, 100, 599, 600,
     601, 1199, 1200, 1599, 1600, 1601, 1799, 1800, 1801, 2399, 2400, 9599, 9600, 10199, 10200,
     16200}

\* 1 January and 31 December of the years, at 0h, 12h and the last tick of the
\* day, in the calendar swiGenFilename takes for them.
GenTjds ==
    { CalendarJd(y, md[1], md[2], IF y >= 1600 THEN SE_GREG_CAL ELSE SE_JUL_CAL) + h :
          y \in GenYears, md \in {<<1, 1>>, <<12, 31>>}, h \in {0, JdRes \div 2, JdRes - 1} }

GenBodies == (SEI_EMB .. SEI_VESTA) \cup {9401, 10433, 133456}

InitGen ==
    /\ AstroModels = AstroModelsUnset
    /\ NutIdle
    /\ PrecIdle
    /\ ChebIdle
    /\ DeltatIdle
    /\ BiasIdle
    /\ CacheIdle
    /\ NutWatchIdle
    /\ DtSizeIdle
    /\ CutIdle
    /\ CartSpIdle
    /\ CoordIdle
    /\ DateIdle
    /\ UtcIdle
    /\ VersionIdle
    /\ TidIdle
    /\ \E tjd \in GenTjds, ipli \in GenBodies : genArgs = [tjd |-> tjd, ipli |-> ipli]
    /\ genCall = NoGenCall

\* fname = swiGenFilename(tjd, ipli)
SwiGenFilename ==
    /\ genCall' = [op |-> "swiGenFilename", fname |-> swiGenFilename(genArgs.tjd, genArgs.ipli)]
    /\ UNCHANGED <<genArgs, notGen>>

NextGen == SwiGenFilename

SpecGen == InitGen /\ [][NextGen]_vars

\* The Moon, the planets and the main asteroids.
GenMainBodies == (SEI_EMB .. SEI_VESTA) \ {SEI_ANYBODY}

\* The year tjd falls in by the calendar's rules: Gregorian from 1 Jan 1600 on.
CalendarYear(tjd) ==
    LET cal == IF tjd >= CalendarJd(1600, 1, 1, SE_GREG_CAL) THEN SE_GREG_CAL ELSE SE_JUL_CAL
    IN  CHOOSE y \in GenYears :
            CalendarJd(y, 1, 1, cal) <= tjd /\ tjd < CalendarJd(y + 1, 1, 1, cal)

\* The largest multiple c of NCTIES with c * 100 <= year.
FileCentury(year) ==
    CHOOSE c \in -120 .. 180 :
        /\ c % NCTIES = 0
        /\ c * 100 <= year
        /\ (c + NCTIES) * 100 > year

\* A century written with "%02d": two digits, three from century 100 on.
CenturyDigits(c) ==
    IF c < 10 THEN <<"0", DigitChar(c)>>
    ELSE IF c < 100 THEN <<DigitChar(c \div 10), DigitChar(c % 10)>>
    ELSE <<DigitChar(c \div 100), DigitChar((c \div 10) % 10), DigitChar(c % 10)>>

SwiInitSwedIfStartCall ==
    /\ sweData' = SwiInitSwedIfStart(sweData).sweData
    /\ startCall' = startCallOf(SwiInitSwedIfStart(sweData).ret, startCall)
    /\ tidCall' = tidCallOf("SwiInitSwedIfStart", 0, {}, 0, NoDeltatResult)
    /\ UNCHANGED <<TidAcc, IsTidAccManual, swed, moonFile, tidSet, notTid>>

NextStart ==
    \/ SwiInitSwedIfStartCall
    \/ SwephSetTidAcc \/ SwephSwiSetTidAcc \/ SwephCalcDeltat

SpecStart == InitTid /\ [][NextStart]_vars

\* C24: SwiInitSwedIfStart returns true on the first call only and false on
\* every later call; once sweData.SwedIsInitialised is true it stays true; a
\* later call, made directly or by CalcDeltat, changes neither the ephemeris
\* path nor the tidal acceleration and its manual flag.
C24_InitSwedOnFirstCallOnly ==
    /\ [](startCall.calls = 1 => startCall.ret)
    /\ [](startCall.calls > 1 => ~startCall.ret)
    /\ [](sweData.SwedIsInitialised <=> startCall.calls > 0)
    /\ [][sweData.SwedIsInitialised => sweData'.SwedIsInitialised]_vars
    /\ [][(startCall.calls > 0 /\ tidCall'.op \in {"SwiInitSwedIfStart", "CalcDeltat"})
              => sweData' = sweData]_vars

\* A later call was made after a manual tidal acceleration was set, and left it
\* and the ephemeris path of the first call in place.
C24_Witness ==
    /\ tidCall.op = "SwiInitSwedIfStart"
    /\ startCall.calls > 1
    /\ ~startCall.ret
    /\ sweData.IsTidAccManual
    /\ sweData.TidAcc = SE_TIDAL_26
    /\ sweData.EphePath = SE_EPHE_PATH

(***************************************************************************)
(* ICRS to FK5 (swephlib.c swi_icrs2fk5)                                   *)
(*                                                                         *)
(* Coordinates and the matrix are held as in the frame bias.               *)
(***************************************************************************)
rbFk5 ==
    << <<0, 111022, 44118>>, <<-111022, 0, 96478>>, <<-44118, -96478, 0>> >>

\* swiIcrs2fk5(x, iflag, backward): *x after it.  xx is a zeroed array and
\* *x = xx assigns all six elements.
swiIcrs2fk5(x, iflag, backward) == biasProduct(rbFk5, x, iflag, ~backward)

\* swiIcrs2fk5(&x, iflag, backward) on a copy of the caller's vector
SwiIcrs2fk5Call ==
    /\ Len(biasLog) < MaxCalls
    /\ biasLog' = Append(biasLog,
           [op |-> "swiIcrs2fk5", tjd |-> 0,
            x |-> swiIcrs2fk5(biasArgs.x, biasArgs.iflag, biasArgs.backward)])
    /\ UNCHANGED <<AstroModels, biasArgs, notBias>>

NextFk5 == SwiBiasCall \/ SwiIcrs2fk5Call

SpecFk5 == InitBias /\ [][NextFk5]_vars

\* The speed x[3..5] a call returned is the speed the caller passed.
SpeedUntouched(call) == \A k \in 4 .. 6 : call.x[k] = biasArgs.x[k]

\* SwiBias alone: without SEFLG_SPEED the speed is left as passed.
BiasLeavesSpeedWithoutSpeedFlag ==
    "SEFLG_SPEED" \notin biasArgs.iflag =>
        \A i \in 1 .. Len(biasLog) : biasLog[i].op = "SwiBias" => SpeedUntouched(biasLog[i])

\* C25: SwiBias and swiIcrs2fk5 transform x[3..5] only when SEFLG_SPEED is set
\* in iflag; without it both leave x[3..5] exactly as the caller passed them,
\* forward and backward.
C25_SpeedUntouchedWithoutSpeedFlag ==
    "SEFLG_SPEED" \notin biasArgs.iflag =>
        \A i \in 1 .. Len(biasLog) : SpeedUntouched(biasLog[i])

(***************************************************************************)
(* The JPL Horizons correction called by itself (swi_approx_jplhor)        *)
(***************************************************************************)
\* The vector the next call works on: the caller's, then what the call before
\* left in it.
jplhorInput == IF biasLog = <<>> THEN biasArgs.x ELSE biasLog[Len(biasLog)].x

\* swiApproxJplhor(x, tjd, iflag, backward) on the vector as the calls before left it
SwiApproxJplhorCall ==
    \E tjd \in BiasEpochs, backward \in BOOLEAN :
        /\ Len(biasLog) < MaxCalls
        /\ biasLog' = Append(biasLog,
               [op |-> "swiApproxJplhor", tjd |-> tjd, backward |-> backward,
                in |-> jplhorInput,
                x |-> swiApproxJplhor(jplhorInput, tjd, biasArgs.iflag, backward)])
        /\ UNCHANGED <<AstroModels, biasArgs, notBias>>

NextJplhor == SwiApproxJplhorCall

SpecJplhor == InitBias /\ [][NextJplhor]_vars

\* x[0]^2 + x[1]^2 and the square of the length of x, to the 1e-12 the
\* coordinates are held to.
RxySquare(x) ==
    << x[1][1] * x[1][1] + x[2][1] * x[2][1], 2 * (x[1][1] * x[1][2] + x[2][1] * x[2][2]) >>

LengthSquare(x) ==
    << RxySquare(x)[1] + x[3][1] * x[3][1], RxySquare(x)[2] + 2 * x[3][1] * x[3][2] >>

\* The call leaves x alone: SEFLG_JPLHOR_APPROX is not set or the mode is SEMOD_JPLHORA_2.
JplhorOff ==
    \/ "SEFLG_JPLHOR_APPROX" \notin biasArgs.iflag
    \/ AstroModels.SE_MODEL_JPLHORA_MODE = "SEMOD_JPLHORA_2"

\* What the port keeps of it: x is unchanged when the correction is off, and the
\* backward call undoes the forward call.
JplhorOffOrUndone ==
    /\ JplhorOff => \A i \in 1 .. Len(biasLog) : biasLog[i].x = biasLog[i].in
    /\ \A i \in 1 .. Len(biasLog) - 1 :
          (/\ biasLog[i].tjd = biasLog[i + 1].tjd
           /\ ~biasLog[i].backward
           /\ biasLog[i + 1].backward) => biasLog[i + 1].x = biasLog[i].in

\* C26: swiApproxJplhor leaves x unchanged when SEFLG_JPLHOR_APPROX is not set or
\* the mode is SEMOD_JPLHORA_2; otherwise it shifts only the polar longitude of
\* x, so the latitude (z and the length of the projection on the xy plane) and
\* the length of x are unchanged, and the backward call undoes the forward call.
C26_JplhorShiftsTheLongitudeOnly ==
    /\ JplhorOffOrUndone
    /\ \A i \in 1 .. Len(biasLog) :
          /\ LengthSquare(biasLog[i].x) = LengthSquare(biasLog[i].in)
          /\ RxySquare(biasLog[i].x) = RxySquare(biasLog[i].in)
          /\ biasLog[i].x[3] = biasLog[i].in[3]

(***************************************************************************)
(* The size of the Delta T table (swephlib.c init_dt)                      *)
(*                                                                         *)
(* A call that indexes dt outside its bounds panics and returns nothing.   *)
(***************************************************************************)
MaxDtCalls == 3

\* The files initDt tries to open: swe_deltat.txt and then sedeltat.txt on the
\* call that finds InitDtDone false, none on any other.
initDtOpens(done) == IF ~done THEN 2 ELSE 0

dtCallOf(port, r, opens) ==
    [port |-> port, panic |-> r.panic, tabsiz |-> r.tabsiz, opens |-> opens]

notDeltatDtSize ==
    <<nutVars, precVars, chebVars, biasVars, cacheVars, coordVars, dateVars, utcVars,
      versionVars, tidVars, cartSpVars, cutVars, genVars, nutWatchVars>>

\* tabsiz := initDt() of swephlib
InitDtCall ==
    /\ Len(dtLog) < MaxDtCalls
    /\ dtLog' = Append(dtLog, dtCallOf("swephlib", initDt(dt, InitDtDone),
                                       initDtOpens(InitDtDone)))
    /\ InitDtDone' = TRUE
    /\ UNCHANGED <<AstroModels, sweDataInitDtDone, deltatArgs, deltatLog, notDeltatDtSize>>

\* tabsiz := initDt() of sweph.go
SwephInitDtCall ==
    /\ Len(dtLog) < MaxDtCalls
    /\ dtLog' = Append(dtLog, dtCallOf("sweph", initDt(dtSweph, sweDataInitDtDone),
                                       initDtOpens(sweDataInitDtDone)))
    /\ sweDataInitDtDone' = TRUE
    /\ UNCHANGED <<AstroModels, InitDtDone, deltatArgs, deltatLog, notDeltatDtSize>>

NextDtSize == InitDtCall \/ SwephInitDtCall \/ DeltaTAa \/ DeltaAA

SpecDtSize == InitDeltat /\ [][NextDtSize]_vars

\* Every call of the port returned TABSIZ without leaving the table, and only
\* the first call of the port looked for the file.
DtSizeHolds(port) ==
    /\ \A i \in 1 .. Len(dtLog) :
          dtLog[i].port = port => ~dtLog[i].panic /\ dtLog[i].tabsiz = TABSIZ
    /\ \A i, j \in 1 .. Len(dtLog) :
          (i < j /\ dtLog[i].port = port /\ dtLog[j].port = port) => dtLog[j].opens = 0

\* initDt of swephlib alone.
DtSizeHoldsInSwephlib == DtSizeHolds("swephlib")

\* C27: every call of initDt, the first and every later one, terminates without
\* indexing dt outside its bounds and returns the same table size, TABSIZ when
\* no Delta T file exists; the file is looked for only on the first call.
C27_InitDtReturnsTheSameSize ==
    /\ DtSizeHolds("swephlib")
    /\ DtSizeHolds("sweph")

(***************************************************************************)
(* Repeated nutation queries (swephlib.c swi_nutation)                     *)
(*                                                                         *)
(* One pair (tjd, iflag) is watched: nutSeen holds what swiNutation        *)
(* returned for it the first time and the latest time.                     *)
(***************************************************************************)
notNutWatchNut ==
    <<precVars, chebVars, deltatVars, biasVars, cacheVars, coordVars, dateVars, utcVars,
      versionVars, tidVars, cartSpVars, cutVars, genVars, dtSizeVars>>

InitNutWatch ==
    /\ \E n \in NutModelIds, h \in {"0", "SEMOD_JPLHORA_2"} :
          AstroModels = [AstroModelsUnset EXCEPT !.SE_MODEL_NUT = n,
                                                 !.SE_MODEL_JPLHORA_MODE = h]
    /\ DoInterpolateNut \in BOOLEAN
    /\ Interpol = InterpolZero
    /\ nutCall = NoNutCall
    /\ nutSeed = NoNutSeed
    /\ nutProbe \in [tjd : (-DayRes) .. MaxTjd, iflag : NutIflagSet]
    /\ nutSeen = <<>>
    /\ PrecIdle
    /\ ChebIdle
    /\ DeltatIdle
    /\ BiasIdle
    /\ CacheIdle
    /\ DtSizeIdle
    /\ GenIdle
    /\ CutIdle
    /\ CartSpIdle
    /\ TidIdle
    /\ VersionIdle
    /\ UtcIdle
    /\ DateIdle
    /\ CoordIdle

\* nutSeen after a call with (tjd, iflag) returned nutlo.
nutSeenAfter(tjd, iflag, nutlo) ==
    IF [tjd |-> tjd, iflag |-> iflag] # nutProbe THEN nutSeen
    ELSE IF nutSeen = <<>> THEN <<nutlo>>
    ELSE <<nutSeen[1], nutlo>>

\* A caller queries swiNutation(tjd, iflag, nutlo) with nutlo zeroed.
SwiNutationWatched ==
    \E tjd \in (-DayRes) .. MaxTjd, iflag \in NutIflagSet :
        /\ Interpol' = swiNutation(tjd, iflag, <<0, 0>>).ip
        /\ nutSeen' = nutSeenAfter(tjd, iflag, swiNutation(tjd, iflag, <<0, 0>>).nutlo)
        /\ UNCHANGED <<AstroModels, DoInterpolateNut, nutCall, nutSeed, nutProbe, notNutWatchNut>>

NextNutWatch == SwiNutationWatched

SpecNutWatch == InitNutWatch /\ [][NextNutWatch]_vars

\* Without interpolation a repeated query returns what the first returned.
NutationRepeatsWithoutInterpolation ==
    (~DoInterpolateNut /\ Len(nutSeen) = 2) => nutSeen[2] = nutSeen[1]

\* C28: under one nutation model two swiNutation calls with identical (tjd,
\* iflag) return identical nutlo, whatever swiNutation queries were made before
\* or between them, also with interpolation enabled.
C28_NutationRepeats ==
    Len(nutSeen) = 2 => nutSeen[2] = nutSeen[1]

====
